---- MODULE Spec2Model ----
\* Model of the roster/session fetcher (lib/dataFetcher) and of the session
\* aggregation of SessionDashboard.
EXTENDS Integers, Sequences, FiniteSets, TLC

\* string literals of the source
STR_undefined == <<"u", "n", "d", "e", "f", "i", "n", "e", "d">>
STR_Unknown == <<"U", "n", "k", "n", "o", "w", "n">>
STR_UnknownEmployee ==
  <<"U", "n", "k", "n", "o", "w", "n", " ", "E", "m", "p", "l", "o", "y",
    "e", "e">>
STR_Unassigned == <<"U", "n", "a", "s", "s", "i", "g", "n", "e", "d">>
STR_All == <<"A", "l", "l">>
STR_no_show == <<"n", "o", " ", "s", "h", "o", "w">>
STR_noshow == <<"n", "o", "s", "h", "o", "w">>
STR_late_cancel == <<"l", "a", "t", "e", " ", "c", "a", "n", "c", "e", "l">>
STR_completed == <<"c", "o", "m", "p", "l", "e", "t", "e", "d">>

\* ---------------------------------------------------------------------
\* Strings: sequences of one-character strings
\* ---------------------------------------------------------------------
UpperLetters == <<"A","B","C","D","E","F","G","H","I","J","K","L","M",
                  "N","O","P","Q","R","S","T","U","V","W","X","Y","Z">>
LowerLetters == <<"a","b","c","d","e","f","g","h","i","j","k","l","m",
                  "n","o","p","q","r","s","t","u","v","w","x","y","z">>

LowerChar(c) ==
  IF \E i \in 1..26 : UpperLetters[i] = c
  THEN LowerLetters[CHOOSE i \in 1..26 : UpperLetters[i] = c]
  ELSE c

\* String.prototype.toLowerCase
ToLowerCase(s) == [i \in 1..Len(s) |-> LowerChar(s[i])]

\* String.prototype.includes
Includes(s, sub) ==
  \E i \in 0..(Len(s) - Len(sub)) : SubSeq(s, i + 1, i + Len(sub)) = sub

\* String.prototype.trim
RECURSIVE TrimStart(_)
TrimStart(s) ==
  IF s # <<>> /\ Head(s) = " " THEN TrimStart(Tail(s)) ELSE s
RECURSIVE TrimEnd(_)
TrimEnd(s) ==
  IF s # <<>> /\ s[Len(s)] = " " THEN TrimEnd(SubSeq(s, 1, Len(s) - 1)) ELSE s
Trim(s) == TrimEnd(TrimStart(s))

\* a missing field (undefined / null)
Undef == <<"<undefined>">>
\* JavaScript truthiness of a string-valued field
Truthy(s) == s # Undef /\ s # <<>>
\* a || b
Or(a, b) == IF Truthy(a) THEN a ELSE b
\* a value interpolated into a template literal
Interpolate(s) == IF s = Undef THEN STR_undefined ELSE s

\* a missing identifier, and JavaScript truthiness of an identifier
NoId == -1
TruthyId(i) == i # NoId /\ i # 0

\* Dates are integer instants; new Date(x) of a missing or malformed x is
\* the invalid date, which compares false with everything
InvalidDate == -1
NullDate == -2
\* a comparison that takes the current instant for past
DateLess_OrEqual(a, b) == a # InvalidDate /\ b # InvalidDate /\ a <= b

DateLess(a, b) == a # InvalidDate /\ b # InvalidDate /\ a < b

\* ---------------------------------------------------------------------
\* Bounds of the model
\* ---------------------------------------------------------------------
\* remote tables hold up to MaxFullPages full pages plus a remainder
MaxFullPages == 3
\* a failing source fails at a page index up to MaxFailPage
MaxFailPage == 3

\* ---------------------------------------------------------------------
\* fetchAllPages: program constants
\* ---------------------------------------------------------------------
pageSize == 1000
SafetyPages == 50

Min(a, b) == IF a < b THEN a ELSE b
Max(a, b) == IF a > b THEN a ELSE b

\* ---------------------------------------------------------------------
\* The remote query interface
\* ---------------------------------------------------------------------
\* A source describes what the remote answers to the ranged requests of one
\* query: a result set of `rows` rows (Endless: every range is full), and
\* optionally a page index at which the query reports failure `err`.
Endless == -1
NoFail == -1
NoError == [code |-> "none", message |-> "none"]
Errors ==
  { [code |-> "42P01", message |-> "relation does not exist"],
    [code |-> "PGRST200", message |-> "no relationship found"],
    [code |-> "", message |-> "Failed to fetch"] }

Remainders == {0, 1, 400, 999}
RowCounts ==
  { k * pageSize + r : k \in 0..MaxFullPages, r \in Remainders }
    \cup { k * pageSize + r : k \in (SafetyPages - 1)..(SafetyPages + 1),
                              r \in {0, 400} }
FailPages == (0..MaxFailPage) \cup {SafetyPages}

Sources ==
  { [rows |-> n, failAt |-> NoFail, err |-> NoError] :
      n \in RowCounts \cup {Endless} }
    \cup [rows : {Endless, 400, 2400}, failAt : FailPages, err : Errors]

\* the four call sites of fetchAllPages
CallSites ==
  { [tableName |-> "employee_manager", selectQuery |-> "*",
     filters |-> "identity", orderBy |-> "null"],
    [tableName |-> "session_tracking", selectQuery |-> "*",
     filters |-> "not employee_name is null", orderBy |-> "created_at"],
    [tableName |-> "session_tracking", selectQuery |-> "*, employee_manager(...)",
     filters |-> "identity", orderBy |-> "session_date"],
    [tableName |-> "session_tracking", selectQuery |-> "*",
     filters |-> "identity", orderBy |-> "created_at"] }

\* number of rows the source returns for the range [from, to]
RangeRows(s, from, to) ==
  IF s.rows = Endless THEN to - from + 1
  ELSE Max(0, Min(to, s.rows - 1) - from + 1)

VARIABLES
  src,        \* the remote source answering this query
  call,       \* tableName, selectQuery, filters, orderBy of the call
  silent,     \* the silent flag of the call
  fpc,        \* position of fetchAllPages
  allData,    \* rows collected: sequence of segments <<first, last>> of offsets
  page,
  hasMore,
  requests,   \* ranged requests issued so far
  returned,   \* value the call returned (segments), when fpc = "returned"
  thrown,     \* failure object the call raised, when fpc = "thrown"
  logs,       \* console output
  employees,       \* SessionDashboard state: the fetched roster
  sessions,        \* SessionDashboard state: the fetched sessions
  now,             \* the clock (new Date())
  nowAt,           \* the clock reading taken for each processed session
  apc,             \* position of the aggregation
  ei,              \* index of the next roster employee to seed
  si,              \* index of the next session to process
  statsMap,
  aggregatedStats, \* Array.from(statsMap.values())
  searchTerm,
  filterProgram,
  \* getEmployeeRoster
  rosterTable,     \* what the remote answers for 'employee_manager'
  trackingTable,   \* what it answers for the filtered 'session_tracking' query
  rpc,             \* position of getEmployeeRoster
  rQueries,        \* tables queried so far
  rosterData,
  sessionData,
  xi,              \* index of the next session row of the forEach
  uniqueEmployees, \* Map: sequence of entries in insertion order
  rResult,         \* value returned, when rpc = "returned"
  rThrown,         \* failure raised, when rpc = "thrown"
  \* getDashboardSessions
  joinTable,       \* what the remote answers for the joined select
  flatTable,       \* what it answers for the flat select
  dpc,             \* position of getDashboardSessions
  dQueries,        \* queries issued so far: select and orderBy
  dResult,         \* value returned, when dpc = "returned"
  dThrown,         \* failure raised, when dpc = "thrown"
  \* the mounted view and its load
  view,            \* which dashboard the router mounted
  mounted,         \* SessionDashboard: the effect's mounted flag
  loading,
  error,
  lpc,             \* position of SessionDashboard's loadData
  empEmployees,    \* EmployeeDashboard state
  empMounted,
  empLoading,
  empError,
  epc,             \* position of EmployeeDashboard's loadData
  \* ProtectedRoute
  authSession,     \* the session the authentication collaborator holds
  prSession,       \* state: session
  checking,        \* state: checking
  prMounted,       \* mounted, and so subscribed to auth changes
  gpc,             \* position of checkSession
  gsValue,         \* the session getSession read
  gsFailed,        \* getSession rejected
  notes,           \* auth changes so far
  delivered,       \* a change notification reached the component
  \* LoginPage
  lgEmail,
  lgPassword,
  lgLoading,
  lgError,
  lgpc,            \* position of handleLogin
  lgRequest,       \* the credentials of the request in flight
  navigated,       \* navigate('/') was called
  attempts,        \* sign-in attempts started
  lgLast,          \* how the collaborator answered the last attempt
  \* SimpleTrendChart
  cpc,             \* position of the chartData computation
  ci,              \* index of the next session of the forEach
  monthlyCounts,   \* object: entries in insertion order
  chartNowAt,      \* the clock reading taken for each session
  chartData,
  \* EmployeeDashboard: the filters
  empSearchTerm,
  empFilterProgram

fetchVars ==
  <<src, call, silent, fpc, allData, page, hasMore, requests, returned,
    thrown, logs>>

aggVars ==
  <<employees, sessions, now, nowAt, apc, ei, si, statsMap, aggregatedStats,
    searchTerm, filterProgram>>

rosterVars ==
  <<rosterTable, trackingTable, rpc, rQueries, rosterData, sessionData, xi,
    uniqueEmployees, rResult, rThrown>>

\* the state of the other components
dashVars == <<joinTable, flatTable, dpc, dQueries, dResult, dThrown>>

loadVars == <<view, mounted, loading, error, lpc>>

empVars == <<empEmployees, empMounted, empLoading, empError, epc>>

routeVars ==
  <<authSession, prSession, checking, prMounted, gpc, gsValue, gsFailed,
    notes, delivered>>

loginVars ==
  <<lgEmail, lgPassword, lgLoading, lgError, lgpc, lgRequest, navigated,
    attempts, lgLast>>

chartVars == <<cpc, ci, monthlyCounts, chartNowAt, chartData>>

empFilterVars == <<empSearchTerm, empFilterProgram>>

restVars ==
  <<rosterVars, dashVars, loadVars, empVars, routeVars, loginVars,
    chartVars, empFilterVars>>
exceptRoster ==
  <<fetchVars, aggVars, dashVars, loadVars, empVars, routeVars, loginVars,
    chartVars, empFilterVars>>
exceptDash ==
  <<fetchVars, aggVars, rosterVars, loadVars, empVars, routeVars, loginVars,
    chartVars, empFilterVars>>
exceptRoute ==
  <<fetchVars, aggVars, rosterVars, dashVars, loadVars, empVars, loginVars,
    chartVars, empFilterVars>>
exceptLogin ==
  <<fetchVars, aggVars, rosterVars, dashVars, loadVars, empVars, routeVars,
    chartVars, empFilterVars>>
exceptChart ==
  <<fetchVars, rosterVars, dashVars, loadVars, empVars, routeVars,
    loginVars, empFilterVars>>

vars == <<fetchVars, aggVars, restVars>>

\* getEmployeeRoster not called
RosterIdle ==
  /\ rosterTable = [rows |-> <<>>, err |-> [code |-> "none", message |-> "none"]]
  /\ trackingTable = [rows |-> <<>>, err |-> [code |-> "none", message |-> "none"]]
  /\ rpc = "idle"
  /\ rQueries = <<>>
  /\ rosterData = <<>>
  /\ sessionData = <<>>
  /\ xi = 1
  /\ uniqueEmployees = <<>>
  /\ rResult = <<>>
  /\ rThrown = [code |-> "none", message |-> "none"]

\* getDashboardSessions not called
DashIdle ==
  /\ joinTable = [rows |-> <<>>, err |-> [code |-> "none", message |-> "none"]]
  /\ flatTable = [rows |-> <<>>, err |-> [code |-> "none", message |-> "none"]]
  /\ dpc = "idle"
  /\ dQueries = <<>>
  /\ dResult = <<>>
  /\ dThrown = [code |-> "none", message |-> "none"]

\* setError(null)
NoMessage == "<null>"

STR_AllPrograms ==
  <<"A", "l", "l", " ", "P", "r", "o", "g", "r", "a", "m", "s">>

\* no dashboard mounted
ViewIdle ==
  /\ view = "none"
  /\ mounted = FALSE
  /\ loading = TRUE
  /\ error = NoMessage
  /\ lpc = "idle"
  /\ empEmployees = <<>>
  /\ empMounted = FALSE
  /\ empLoading = TRUE
  /\ empError = NoMessage
  /\ epc = "idle"
  /\ empSearchTerm = <<>>
  /\ empFilterProgram = STR_AllPrograms

\* useState<Session | null>(null)
NoSession == 0

\* ProtectedRoute not mounted
RouteIdle ==
  /\ authSession = NoSession
  /\ prSession = NoSession
  /\ checking = TRUE
  /\ prMounted = FALSE
  /\ gpc = "idle"
  /\ gsValue = NoSession
  /\ gsFailed = FALSE
  /\ notes = 0
  /\ delivered = FALSE

\* LoginPage as constructed
LoginIdle ==
  /\ lgEmail = ""
  /\ lgPassword = ""
  /\ lgLoading = FALSE
  /\ lgError = NoMessage
  /\ lgpc = "idle"
  /\ lgRequest = [email |-> "", password |-> ""]
  /\ navigated = FALSE
  /\ attempts = 0
  /\ lgLast = "none"

\* the trend chart before it has computed anything
ChartIdle ==
  /\ cpc = "idle"
  /\ ci = 1
  /\ monthlyCounts = <<>>
  /\ chartNowAt = <<>>
  /\ chartData = <<>>

\* the components other than the one a specification is about
RestIdle ==
  RosterIdle /\ DashIdle /\ ViewIdle /\ RouteIdle /\ LoginIdle /\ ChartIdle

\* the dashboard before any data has arrived
AggIdle ==
  /\ employees = <<>>
  /\ sessions = <<>>
  /\ now = 0
  /\ nowAt = <<>>
  /\ apc = "idle"
  /\ ei = 1
  /\ si = 1
  /\ statsMap = <<>>
  /\ aggregatedStats = <<>>
  /\ searchTerm = <<>>
  /\ filterProgram = <<"A", "l", "l">>

\* no fetch in progress
FetchIdle ==
  /\ src = [rows |-> 0, failAt |-> -1, err |-> [code |-> "none", message |-> "none"]]
  /\ call = [tableName |-> "", selectQuery |-> "", filters |-> "", orderBy |-> ""]
  /\ silent = FALSE
  /\ fpc = "idle"
  /\ allData = <<>>
  /\ page = 0
  /\ hasMore = TRUE
  /\ requests = <<>>
  /\ returned = <<>>
  /\ thrown = [code |-> "none", message |-> "none"]
  /\ logs = <<>>

\* ---------------------------------------------------------------------
\* fetchAllPages
\* ---------------------------------------------------------------------
RangeFrom(p) == p * pageSize
RangeTo(p) == (p + 1) * pageSize - 1

\* a loop that also stops at a full page
ReachedEnd_FullPage(n) == n <= pageSize

\* "If we got fewer rows than requested, we've reached the end"
ReachedEnd(n) == n < pageSize

\* "Safety break for very large datasets"
SafetyBreak(p) == p > SafetyPages

\* a catch block that wraps the failure in a generic Error(message)
Rethrown_Generic(err) == [code |-> "", message |-> err.message]

\* the object the catch block rethrows
Rethrown(err) == err

\* allData = [...allData, ...data]
AppendPage(all, from, n) == Append(all, <<from, from + n - 1>>)

Log(cond, line) == IF cond THEN Append(logs, line) ELSE logs

InitFetch ==
  /\ src \in Sources
  /\ call \in CallSites
  /\ silent \in BOOLEAN
  /\ fpc = "start"
  /\ allData = <<>>
  /\ page = 0
  /\ hasMore = TRUE
  /\ requests = <<>>
  /\ returned = <<>>
  /\ thrown = NoError
  /\ logs = <<>>
  /\ AggIdle
  /\ RestIdle

\* entry of the function up to the loop
FetchStart ==
  /\ fpc = "start"
  /\ allData' = <<>>
  /\ page' = 0
  /\ hasMore' = TRUE
  /\ logs' = Log(~silent, "start")
  /\ fpc' = "loop"
  /\ UNCHANGED <<src, call, silent, requests, returned, thrown, aggVars, restVars>>

\* one iteration of the loop whose query returns data (possibly no rows)
FetchPageData ==
  /\ fpc = "loop"
  /\ hasMore
  /\ src.failAt # page
  /\ LET from == RangeFrom(page)
         to == RangeTo(page)
         n == RangeRows(src, from, to)
         more == IF n > 0 THEN ~ReachedEnd(n) ELSE FALSE
         logs1 == Log(~silent /\ n > 0, "page")
         brk == SafetyBreak(page + 1)
     IN /\ requests' = Append(requests,
                         [from |-> from, to |-> to, filters |-> call.filters,
                          orderBy |-> call.orderBy, table |-> call.tableName])
        /\ allData' = IF n > 0 THEN AppendPage(allData, from, n) ELSE allData
        /\ hasMore' = more
        /\ page' = page + 1
        /\ logs' = IF brk THEN Append(logs1, "warn") ELSE logs1
        /\ fpc' = IF brk \/ ~more THEN "after" ELSE "loop"
  /\ UNCHANGED <<src, call, silent, returned, thrown, aggVars, restVars>>

\* one iteration of the loop whose query reports an error: throw, catch,
\* rethrow
FetchPageError ==
  /\ fpc = "loop"
  /\ hasMore
  /\ src.failAt = page
  /\ requests' = Append(requests,
                   [from |-> RangeFrom(page), to |-> RangeTo(page),
                    filters |-> call.filters, orderBy |-> call.orderBy,
                    table |-> call.tableName])
  /\ logs' = Log(~silent, "error")
  /\ thrown' = Rethrown(src.err)
  /\ fpc' = "thrown"
  /\ UNCHANGED <<src, call, silent, allData, page, hasMore, returned, aggVars, restVars>>

\* after the loop
FetchReturn ==
  /\ fpc = "after"
  /\ logs' = Log(~silent, "finished")
  /\ returned' = allData
  /\ fpc' = "returned"
  /\ UNCHANGED <<src, call, silent, allData, page, hasMore, requests,
               thrown, aggVars, restVars>>

NextFetch == FetchStart \/ FetchPageData \/ FetchPageError \/ FetchReturn

SpecFetch == InitFetch /\ [][NextFetch]_vars

\* the call as one function of the source, the call site and the flag.
\* The locals of the call: page, allData, hasMore, the requests issued,
\* the lines logged, and how the call ended ("loop" while it runs)
FetchLocals(sil) ==
  [page |-> 0, allData |-> <<>>, hasMore |-> TRUE, requests |-> <<>>,
   logs |-> IF sil THEN <<>> ELSE <<"start">>, kind |-> "loop",
   thrown |-> NoError, capped |-> FALSE]

\* an iteration whose silent mode swallows the failure and ends the loop
FetchIteration_SilentSwallows(s, c, sil, st) ==
  LET from == RangeFrom(st.page)
      to == RangeTo(st.page)
      reqs == Append(st.requests,
                [from |-> from, to |-> to, filters |-> c.filters,
                 orderBy |-> c.orderBy, table |-> c.tableName])
      n == RangeRows(s, from, to)
      more == IF n > 0 THEN ~ReachedEnd(n) ELSE FALSE
      lg1 == IF ~sil /\ n > 0 THEN Append(st.logs, "page") ELSE st.logs
      brk == SafetyBreak(st.page + 1)
  IN IF s.failAt = st.page
     THEN IF sil
          THEN [st EXCEPT !.requests = reqs, !.hasMore = FALSE]
          ELSE [st EXCEPT !.requests = reqs, !.kind = "thrown",
                          !.thrown = Rethrown(s.err),
                          !.logs = Append(st.logs, "error")]
     ELSE [st EXCEPT !.requests = reqs,
                     !.allData = IF n > 0 THEN AppendPage(st.allData, from, n)
                                 ELSE st.allData,
                     !.hasMore = more,
                     !.page = st.page + 1,
                     !.capped = brk,
                     !.logs = IF brk THEN Append(lg1, "warn") ELSE lg1]

\* one iteration of the while loop, with the catch block
FetchIteration(s, c, sil, st) ==
  LET from == RangeFrom(st.page)
      to == RangeTo(st.page)
      reqs == Append(st.requests,
                [from |-> from, to |-> to, filters |-> c.filters,
                 orderBy |-> c.orderBy, table |-> c.tableName])
      n == RangeRows(s, from, to)
      more == IF n > 0 THEN ~ReachedEnd(n) ELSE FALSE
      lg1 == IF ~sil /\ n > 0 THEN Append(st.logs, "page") ELSE st.logs
      brk == SafetyBreak(st.page + 1)
  IN IF s.failAt = st.page
     THEN [st EXCEPT !.requests = reqs, !.kind = "thrown",
                     !.thrown = Rethrown(s.err),
                     !.logs = IF sil THEN st.logs
                              ELSE Append(st.logs, "error")]
     ELSE [st EXCEPT !.requests = reqs,
                     !.allData = IF n > 0 THEN AppendPage(st.allData, from, n)
                                 ELSE st.allData,
                     !.hasMore = more,
                     !.page = st.page + 1,
                     !.capped = brk,
                     !.logs = IF brk THEN Append(lg1, "warn") ELSE lg1]

RECURSIVE FetchLoop(_, _, _, _)
FetchLoop(s, c, sil, st) ==
  IF st.kind = "thrown" \/ ~st.hasMore \/ st.capped THEN st
  ELSE FetchLoop(s, c, sil, FetchIteration(s, c, sil, st))

fetchAllPages(s, c, sil) ==
  LET st == FetchLoop(s, c, sil, FetchLocals(sil))
  IN IF st.kind = "thrown"
     THEN [requests |-> st.requests, kind |-> "thrown", returned |-> <<>>,
           thrown |-> st.thrown, capped |-> FALSE, logs |-> st.logs]
     ELSE [requests |-> st.requests, kind |-> "returned",
           returned |-> st.allData, thrown |-> NoError, capped |-> st.capped,
           logs |-> IF sil THEN st.logs ELSE Append(st.logs, "finished")]

\* ---------------------------------------------------------------------
\* Values of the fields of the modelled records
\* ---------------------------------------------------------------------
N_AlJo == <<"A", "l", " ", "J", "o">>
N_ALJO == <<"A", "L", " ", "J", "O">>
N_Al == <<"A", "l">>
N_Jo == <<"J", "o">>
N_Bo == <<"B", "o">>
N_bo == <<"b", "o">>
P_Eng == <<"E", "n", "g">>
P_Ops == <<"O", "p", "s">>
A_url == <<"u">>
ST_Completed == <<"C", "o", "m", "p", "l", "e", "t", "e", "d">>
ST_UPPER_COMPLETED == <<"C", "O", "M", "P", "L", "E", "T", "E", "D">>
ST_No_Show == <<"N", "o", " ", "S", "h", "o", "w">>
ST_Client_No_Show ==
  <<"C", "l", "i", "e", "n", "t", " ", "N", "o", " ", "S", "h", "o", "w">>
ST_noshow == <<"n", "o", "s", "h", "o", "w">>
ST_NoShow == <<"N", "o", "S", "h", "o", "w">>
ST_Late_Cancel == <<"L", "a", "t", "e", " ", "C", "a", "n", "c", "e", "l">>
ST_UPPER_LATE_CANCEL == <<"L", "A", "T", "E", " ", "C", "A", "N", "C", "E", "L">>
ST_Completed_Late_Cancel ==
  <<"C", "o", "m", "p", "l", "e", "t", "e", "d", " ", "-", " ", "L", "a",
    "t", "e", " ", "C", "a", "n", "c", "e", "l">>
ST_Pending == <<"P", "e", "n", "d", "i", "n", "g">>
ST_Cancelled == <<"C", "a", "n", "c", "e", "l", "l", "e", "d">>
ST_no_dash_show == <<"n", "o", "-", "s", "h", "o", "w">>
ST_Blank == <<" ">>

\* ---------------------------------------------------------------------
\* Records of the data model (types.ts)
\* ---------------------------------------------------------------------
Employee(id, full, ename, name, first, last, prog, pname) ==
  [id |-> id, full_name |-> full, employee_name |-> ename, name |-> name,
   first_name |-> first, last_name |-> last, program |-> prog,
   program_name |-> pname, avatar_url |-> Undef]

\* the joined sub-record of a session; present = FALSE is null
NullRef ==
  [present |-> FALSE, full_name |-> Undef, first_name |-> Undef,
   last_name |-> Undef, avatar_url |-> Undef]
Ref(full, first, last) ==
  [present |-> TRUE, full_name |-> full, first_name |-> first,
   last_name |-> last, avatar_url |-> A_url]

\* a session row without its id
SessionRow(eid, ref, ename, status, date, prog, pname) ==
  [employee_id |-> eid, employee_manager |-> ref, employee_name |-> ename,
   status |-> status, session_date |-> date, program |-> prog,
   program_name |-> pname]

WithId(row, id) ==
  [id |-> id, employee_id |-> row.employee_id,
   employee_manager |-> row.employee_manager,
   employee_name |-> row.employee_name, status |-> row.status,
   session_date |-> row.session_date, program |-> row.program,
   program_name |-> row.program_name]

\* ---------------------------------------------------------------------
\* Inputs of the aggregation
\* ---------------------------------------------------------------------
EmployeeSet ==
  { Employee(1, N_AlJo, Undef, Undef, N_Al, N_Jo, P_Eng, Undef),
    Employee(2, <<>>, N_ALJO, N_Bo, Undef, Undef, Undef, P_Ops),
    Employee(3, Undef, Undef, Undef, N_Bo, N_Jo, Undef, Undef),
    Employee(4, Undef, Undef, Undef, N_Al, Undef, P_Eng, Undef) }

SessionRows ==
  { SessionRow(1, Ref(Undef, N_Al, N_Jo), Undef, Undef, 1, P_Eng, Undef),
    SessionRow(NoId, NullRef, N_ALJO, ST_Completed, 1, Undef, Undef),
    SessionRow(0, Ref(N_Bo, Undef, Undef), Undef, ST_No_Show, InvalidDate, Undef, Undef),
    SessionRow(NoId, NullRef, Undef, <<>>, 5, Undef, P_Ops),
    SessionRow(9, Ref(Undef, N_Bo, Undef), Undef, ST_Late_Cancel, 1, Undef, Undef),
    SessionRow(0, NullRef, N_bo, ST_Pending, 3, P_Ops, Undef) }

StatusSet ==
  { Undef, <<>>, ST_Completed, ST_UPPER_COMPLETED, ST_No_Show, ST_Client_No_Show,
    ST_noshow, ST_NoShow, ST_Late_Cancel, ST_UPPER_LATE_CANCEL,
    ST_Completed_Late_Cancel, ST_Pending, ST_Cancelled, ST_no_dash_show,
    ST_Blank }
DateSet == {1, 2, 3, 5, InvalidDate}

ClassifyRows ==
  { SessionRow(NoId, NullRef, N_AlJo, st, d, Undef, Undef) :
      st \in StatusSet, d \in DateSet }

\* the first reading of the clock
NowStart == 2

SeqsUpTo(S, n) == UNION { [1..k -> S] : k \in 0..n }
Injective(f) == \A i, j \in DOMAIN f : f[i] = f[j] => i = j

SearchTerms == { <<>>, <<"J", "O">>, <<"b">>, <<"z">> }
FilterPrograms == { STR_All, P_Eng, P_Ops }

\* ---------------------------------------------------------------------
\* SessionDashboard: aggregation (aggregatedStats)
\* ---------------------------------------------------------------------
\* statsMap is a Map: a sequence of entries in insertion order, one per key
MapHas(m, k) == \E i \in 1..Len(m) : m[i].key = k
MapGet(m, k) == m[CHOOSE i \in 1..Len(m) : m[i].key = k]
\* a list that gets a new entry at every set
MapSet_Append(m, k, v) == Append(m, v)

MapSet(m, k, v) ==
  IF MapHas(m, k)
  THEN [i \in 1..Len(m) |-> IF m[i].key = k THEN v ELSE m[i]]
  ELSE Append(m, v)

\* a key that keeps the letter case
StatKey_CaseSensitive(name) == name

\* name.toLowerCase()
StatKey(name) == ToLowerCase(name)

\* emp.full_name || emp.employee_name || emp.name || 'Unknown'
EmployeeName(emp) ==
  Or(emp.full_name, Or(emp.employee_name, Or(emp.name, STR_Unknown)))

\* the stat record seeded from a roster employee
SeedEntry(emp) ==
  [key |-> StatKey(EmployeeName(emp)),
   id |-> emp.id,
   name |-> EmployeeName(emp),
   program |-> Or(emp.program, Or(emp.program_name, STR_Unassigned)),
   avatar_url |-> emp.avatar_url,
   completed |-> 0, noshow |-> 0, scheduled |-> 0, total |-> 0,
   latestSession |-> NullDate]

\* emp?.full_name || emp?.first_name
\*   ? `${emp.first_name} ${emp.last_name || ''}`.trim()
\*   : (session.employee_name || 'Unknown Employee')
SessionEmployeeName(session) ==
  LET emp == session.employee_manager
  IN IF Truthy(Or(emp.full_name, emp.first_name))
     THEN Trim(Interpolate(emp.first_name) \o <<" ">> \o Or(emp.last_name, <<>>))
     ELSE Or(session.employee_name, STR_UnknownEmployee)

\* session.employee_id || session.id
FallbackId(session) ==
  IF TruthyId(session.employee_id) THEN session.employee_id ELSE session.id

\* the stat record created for a session whose key is not in the map
SessionEntry(session) ==
  [key |-> StatKey(SessionEmployeeName(session)),
   id |-> FallbackId(session),
   name |-> SessionEmployeeName(session),
   program |-> Or(session.program, Or(session.program_name, STR_Unassigned)),
   avatar_url |-> session.employee_manager.avatar_url,
   completed |-> 0, noshow |-> 0, scheduled |-> 0, total |-> 0,
   latestSession |-> NullDate]

\* (session.status || '').toLowerCase()
StatusRaw(session) == ToLowerCase(Or(session.status, <<>>))

IsNoShow(statusRaw) ==
  \/ Includes(statusRaw, STR_no_show)
  \/ Includes(statusRaw, STR_noshow)
  \/ Includes(statusRaw, STR_late_cancel)

IsCompleted(statusRaw, isPast) ==
  Includes(statusRaw, STR_completed) \/ (statusRaw = <<>> /\ isPast)

\* a classification that tests "completed" before the no-show markers
Bucket_CompletedFirst(session, t) ==
  LET statusRaw == StatusRaw(session)
      isPast == DateLess(session.session_date, t)
  IN IF IsCompleted(statusRaw, isPast) THEN "completed"
     ELSE IF IsNoShow(statusRaw) THEN "noshow"
     ELSE "scheduled"

\* the counter a session increments, the clock reading being t
Bucket(session, t) ==
  LET statusRaw == StatusRaw(session)
      isPast == DateLess(session.session_date, t)
  IN IF IsNoShow(statusRaw) THEN "noshow"
     ELSE IF IsCompleted(statusRaw, isPast) THEN "completed"
     ELSE "scheduled"

\* a chain of ifs without else: a no-show falls through to scheduled
Count_FallThrough(entry, session, t) ==
  LET b == Bucket(session, t)
      d == session.session_date
  IN [entry EXCEPT
        !.total = @ + 1,
        !.noshow = IF b = "noshow" THEN @ + 1 ELSE @,
        !.completed = IF b = "completed" THEN @ + 1 ELSE @,
        !.scheduled = IF b # "completed" THEN @ + 1 ELSE @,
        !.latestSession =
          IF @ = NullDate \/ DateLess(@, d) THEN d ELSE @]

\* a count that compares the date with the entry's latest session, when it
\* has one, instead of the clock
Count_AgainstLatest(entry, session, t) ==
  LET b == Bucket(session, IF entry.latestSession = NullDate THEN t
                           ELSE entry.latestSession)
      d == session.session_date
  IN [entry EXCEPT
        !.total = @ + 1,
        !.noshow = IF b = "noshow" THEN @ + 1 ELSE @,
        !.completed = IF b = "completed" THEN @ + 1 ELSE @,
        !.scheduled = IF b = "scheduled" THEN @ + 1 ELSE @,
        !.latestSession =
          IF @ = NullDate \/ DateLess(@, d) THEN d ELSE @]

\* entry.total += 1, the bucket counter += 1, latestSession
Count(entry, session, t) ==
  LET b == Bucket(session, t)
      d == session.session_date
  IN [entry EXCEPT
        !.total = @ + 1,
        !.noshow = IF b = "noshow" THEN @ + 1 ELSE @,
        !.completed = IF b = "completed" THEN @ + 1 ELSE @,
        !.scheduled = IF b = "scheduled" THEN @ + 1 ELSE @,
        !.latestSession =
          IF @ = NullDate \/ DateLess(@, d) THEN d ELSE @]

\* ---------------------------------------------------------------------
\* SessionDashboard: filtering and KPIs
\* ---------------------------------------------------------------------
MatchesSearch(stat, term) ==
  Includes(ToLowerCase(stat.name), ToLowerCase(term))
\* a filter whose unfiltered label is the roster view's
MatchesFilter_AllPrograms(stat, prog) ==
  prog = <<"A", "l", "l", " ", "P", "r", "o", "g", "r", "a", "m", "s">>
    \/ stat.program = prog

MatchesFilter(stat, prog) == prog = STR_All \/ stat.program = prog

FilteredIdx(stats, term, prog) ==
  { i \in 1..Len(stats) :
      MatchesSearch(stats[i], term) /\ MatchesFilter(stats[i], prog) }

\* reduce((acc, curr) => acc + curr.<field>, 0) over the filtered records
RECURSIVE SumOver(_, _, _)
SumOver(stats, idx, field) ==
  IF idx = {} THEN 0
  ELSE LET i == CHOOSE j \in idx : TRUE
       IN stats[i][field] + SumOver(stats, idx \ {i}, field)

Digit(d) == <<"0","1","2","3","4","5","6","7","8","9">>[d + 1]
RECURSIVE IntToStr(_)
IntToStr(n) ==
  IF n < 10 THEN <<Digit(n)>> ELSE IntToStr(n \div 10) \o <<Digit(n % 10)>>

\* (a / b).toFixed(1): the nearest tenth, the larger one of two
ToFixed1(a, b) ==
  LET tenths == (20 * a + b) \div (2 * b)
  IN IntToStr(tenths \div 10) \o <<".">> \o <<Digit(tenths % 10)>>

\* Math.floor in place of Math.round
RoundPercent_Floor(a, b) == (100 * a) \div b

\* Math.round((a / b) * 100)
RoundPercent(a, b) == (200 * a + b) \div (2 * b)

AvgSessions(totalSessions, totalEmployees) ==
  IF totalEmployees > 0 THEN ToFixed1(totalSessions, totalEmployees)
  ELSE <<"0", ".", "0">>

Utilization(totalCompleted, totalSessions) ==
  IF totalSessions > 0 THEN RoundPercent(totalCompleted, totalSessions)
  ELSE 0

\* ---------------------------------------------------------------------
\* SessionDashboard: state machine of one aggregation and of the filters
\* ---------------------------------------------------------------------
\* number of times the clock may advance during one aggregation
MaxTicks == 1
MaxEmployees == 2
MaxSessions == 2
MaxClassifySessions == 1

Rosters == { r \in SeqsUpTo(EmployeeSet, MaxEmployees) : Injective(r) }

\* session ids are unique: the row at position i has id 100 + i
NumberRows(rows) == [i \in 1..Len(rows) |-> WithId(rows[i], 100 + i)]

\* rosters and session lists that vary the names, and session lists that
\* vary the status and the date against the empty and a one-employee roster
AggInputs ==
  { <<r, NumberRows(rows)>> :
      r \in Rosters, rows \in SeqsUpTo(SessionRows, MaxSessions) }
    \cup
  { <<r, NumberRows(rows)>> :
      r \in { q \in Rosters : Len(q) <= 1 /\ \A i \in 1..Len(q) : q[i].id = 1 },
      rows \in SeqsUpTo(ClassifyRows, MaxClassifySessions) }

InitAgg ==
  /\ FetchIdle
  /\ RestIdle
  /\ \E inp \in AggInputs : employees = inp[1] /\ sessions = inp[2]
  /\ now = NowStart
  /\ nowAt = <<>>
  /\ apc = "roster"
  /\ ei = 1
  /\ si = 1
  /\ statsMap = <<>>
  /\ aggregatedStats = <<>>
  /\ searchTerm = <<>>
  /\ filterProgram = STR_All

\* employees.forEach: one iteration
AggSeed ==
  /\ apc = "roster"
  /\ ei <= Len(employees)
  /\ LET emp == employees[ei]
         entry == SeedEntry(emp)
     IN statsMap' = MapSet(statsMap, entry.key, entry)
  /\ ei' = ei + 1
  /\ UNCHANGED <<employees, sessions, now, nowAt, apc, si, aggregatedStats,
                 searchTerm, filterProgram, fetchVars, restVars>>

\* sessions.forEach: one iteration; the clock is read once
AggSession ==
  /\ apc = "roster"
  /\ ei > Len(employees)
  /\ si <= Len(sessions)
  /\ \E t \in now..(now + 1) :
       /\ t <= NowStart + MaxTicks
       /\ now' = t
       /\ nowAt' = Append(nowAt, t)
       /\ LET session == sessions[si]
              key == StatKey(SessionEmployeeName(session))
              map1 == IF ~MapHas(statsMap, key)
                      THEN MapSet(statsMap, key, SessionEntry(session))
                      ELSE statsMap
              entry == MapGet(map1, key)
          IN statsMap' = MapSet(map1, key, Count(entry, session, t))
  /\ si' = si + 1
  /\ UNCHANGED <<employees, sessions, apc, ei, aggregatedStats, searchTerm,
                 filterProgram, fetchVars, restVars>>

\* return Array.from(statsMap.values())
AggReturn ==
  /\ apc = "roster"
  /\ ei > Len(employees)
  /\ si > Len(sessions)
  /\ aggregatedStats' = statsMap
  /\ apc' = "ready"
  /\ UNCHANGED <<employees, sessions, now, nowAt, ei, si, statsMap,
                 searchTerm, filterProgram, fetchVars, restVars>>

\* onChange of the search box
SetSearchTerm ==
  /\ apc = "ready"
  /\ \E t \in SearchTerms : searchTerm' = t
  /\ UNCHANGED <<employees, sessions, now, nowAt, apc, ei, si, statsMap,
                 aggregatedStats, filterProgram, fetchVars, restVars>>

\* onChange of the program select
SetFilterProgram ==
  /\ apc = "ready"
  /\ \E p \in FilterPrograms : filterProgram' = p
  /\ UNCHANGED <<employees, sessions, now, nowAt, apc, ei, si, statsMap,
                 aggregatedStats, searchTerm, fetchVars, restVars>>

\* the values the render derives from the state
filteredData == FilteredIdx(aggregatedStats, searchTerm, filterProgram)
totalEmployees == Cardinality(filteredData)
totalSessions == SumOver(aggregatedStats, filteredData, "total")
totalCompleted == SumOver(aggregatedStats, filteredData, "completed")
avgSessions == AvgSessions(totalSessions, totalEmployees)
utilization == Utilization(totalCompleted, totalSessions)

NextAgg == AggSeed \/ AggSession \/ AggReturn

SpecAgg == InitAgg /\ [][NextAgg]_vars

\* ---------------------------------------------------------------------
\* The KPIs over aggregated records with larger counts
\* ---------------------------------------------------------------------
MaxCount == 3
MaxStats == 2

StatRecords ==
  { [key |-> ToLowerCase(n), id |-> 1, name |-> n, program |-> p,
     avatar_url |-> Undef, completed |-> c, noshow |-> ns, scheduled |-> sc,
     total |-> c + ns + sc, latestSession |-> NullDate] :
      n \in {N_AlJo, N_Bo}, p \in {P_Eng, STR_Unassigned},
      c \in 0..MaxCount, ns \in 0..1, sc \in 0..1 }

StatLists ==
  { l \in SeqsUpTo(StatRecords, MaxStats) :
      \A i, j \in 1..Len(l) : l[i].key = l[j].key => i = j }

\* the dashboard once an aggregation has returned
InitKpi ==
  /\ FetchIdle
  /\ RestIdle
  /\ employees = <<>>
  /\ sessions = <<>>
  /\ now = NowStart
  /\ nowAt = <<>>
  /\ apc = "ready"
  /\ ei = 1
  /\ si = 1
  /\ statsMap \in StatLists
  /\ aggregatedStats = statsMap
  /\ searchTerm = <<>>
  /\ filterProgram = STR_All

NextKpi == SetSearchTerm \/ SetFilterProgram

SpecKpi == InitKpi /\ [][NextKpi]_vars

\* ---------------------------------------------------------------------
\* getEmployeeRoster (lib/dataFetcher)
\* ---------------------------------------------------------------------
MaxTrackingRows == 2

\* fetchAllPages against a table of fewer than pageSize rows: one ranged
\* request, which either reports the table's error (rethrown) or returns
\* all its rows
FetchAllPages(tbl) ==
  IF tbl.err # NoError
  THEN [kind |-> "throw", err |-> Rethrown(tbl.err), rows |-> <<>>]
  ELSE [kind |-> "return", err |-> NoError, rows |-> tbl.rows]

C_Ac == <<"A", "c">>
M_a == <<"a", "@">>
M_b == <<"b", "@">>

\* a row of session_tracking as the fallback reads it
TrackingRow(eid, ename, prog, pname, capProg, account, email, created) ==
  [employee_id |-> eid, employee_name |-> ename, program |-> prog,
   program_name |-> pname, Program |-> capProg, Program_Name |-> Undef,
   account_name |-> account, Account_Name |-> Undef, department |-> Undef,
   Department |-> Undef, email |-> email, Email |-> Undef,
   email_address |-> Undef, company_email |-> Undef,
   Company_Email |-> Undef, created_at |-> created]

\* rows the filtered query can return (employee_name is not null)
TrackingRows ==
  { TrackingRow(42, N_AlJo, Undef, Undef, Undef, Undef, M_a, 1),
    TrackingRow(42, N_AlJo, P_Eng, Undef, Undef, C_Ac, Undef, 2),
    TrackingRow(42, N_AlJo, Undef, Undef, P_Ops, Undef, M_b, 3),
    TrackingRow(NoId, N_Bo, Undef, P_Ops, Undef, C_Ac, M_b, 2),
    TrackingRow(0, N_Bo, Undef, Undef, Undef, Undef, Undef, 1),
    TrackingRow(7, <<>>, P_Eng, Undef, Undef, Undef, Undef, 1) }

TableErrors ==
  { [code |-> "42P01", message |-> "relation does not exist"],
    [code |-> "", message |-> "Failed to fetch"] }

RosterTables ==
  { [rows |-> r, err |-> NoError] : r \in { q \in Rosters : Len(q) <= 1 } }
    \cup { [rows |-> <<>>, err |-> e] : e \in TableErrors }

TrackingTables ==
  { [rows |-> r, err |-> NoError] :
      r \in SeqsUpTo(TrackingRows, MaxTrackingRows) }
    \cup { [rows |-> <<>>, err |-> e] : e \in TableErrors }

\* ids produced by `gen-${Math.random().toString(36).substr(2, 9)}`
GenIds == {-101, -102}

\* name.split(' ')[0]
SplitFirst(name) ==
  IF \E i \in 1..Len(name) : name[i] = " "
  THEN SubSeq(name, 1,
              (CHOOSE i \in 1..Len(name) :
                 name[i] = " " /\ \A j \in 1..(i - 1) : name[j] # " ") - 1)
  ELSE name

\* name.split(' ').slice(1).join(' ')
SplitRest(name) ==
  IF \E i \in 1..Len(name) : name[i] = " "
  THEN SubSeq(name,
              (CHOOSE i \in 1..Len(name) :
                 name[i] = " " /\ \A j \in 1..(i - 1) : name[j] # " ") + 1,
              Len(name))
  ELSE <<>>

\* const key = s.employee_id || name
RosterKey(s) ==
  IF TruthyId(s.employee_id)
  THEN [id |-> s.employee_id, name |-> <<>>]
  ELSE [id |-> NoId, name |-> s.employee_name]

\* the employee record built from one session row
ExtractEmployee(s, genId) ==
  [id |-> IF TruthyId(s.employee_id) THEN s.employee_id ELSE genId,
   full_name |-> s.employee_name,
   first_name |-> SplitFirst(s.employee_name),
   last_name |-> SplitRest(s.employee_name),
   program |-> Or(s.program, Or(s.program_name, Or(s.Program, s.Program_Name))),
   account_name |-> Or(s.account_name, s.Account_Name),
   company |-> Or(s.account_name, s.Account_Name),
   department |-> Or(s.department, Or(s.Department, s.account_name)),
   email |-> Or(s.email, Or(s.Email, Or(s.email_address,
                Or(s.company_email, s.Company_Email)))),
   company_email |-> Or(s.company_email, Or(s.Company_Email, s.email)),
   created_at |-> s.created_at]

\* a test that replaces the record whenever the row has a program
HasMoreInfo_AnyProgram(m, key, s) == Truthy(Or(s.program, s.program_name))

\* !existing?.program && (s.program || s.program_name)
HasMoreInfo(m, key, s) ==
  /\ ~(MapHas(m, key) /\ Truthy(MapGet(m, key).value.program))
  /\ Truthy(Or(s.program, s.program_name))

\* if (rosterData && rosterData.length > 0) return rosterData
\* a roster that is never used
UseRoster_Never(data) == FALSE

UseRoster(data) == Len(data) > 0

InitRoster ==
  /\ FetchIdle
  /\ AggIdle
  /\ ChartIdle
  /\ LoginIdle
  /\ RouteIdle
  /\ DashIdle
  /\ ViewIdle
  /\ rosterTable \in RosterTables
  /\ trackingTable \in TrackingTables
  /\ rpc = "start"
  /\ rQueries = <<>>
  /\ rosterData = <<>>
  /\ sessionData = <<>>
  /\ xi = 1
  /\ uniqueEmployees = <<>>
  /\ rResult = <<>>
  /\ rThrown = NoError

\* the call up to the first await: the silent roster-table fetch is issued
RosterStart ==
  /\ rpc = "start"
  /\ rQueries' = Append(rQueries, "employee_manager")
  /\ rpc' = "await roster"
  /\ UNCHANGED <<rosterTable, trackingTable, rosterData, sessionData, xi,
                 uniqueEmployees, rResult, rThrown, exceptRoster>>

\* the roster-table fetch settles: a failure is caught; rows are returned,
\* no rows start the fallback fetch
RosterSettled ==
  /\ rpc = "await roster"
  /\ LET out == FetchAllPages(rosterTable)
         data == IF out.kind = "throw" THEN <<>> ELSE out.rows
     IN /\ rosterData' = data
        /\ IF UseRoster(data)
           THEN /\ rResult' = data
                /\ rpc' = "returned"
                /\ UNCHANGED rQueries
           ELSE /\ rQueries' = Append(rQueries, "session_tracking")
                /\ rpc' = "await tracking"
                /\ UNCHANGED rResult
  /\ UNCHANGED <<rosterTable, trackingTable, sessionData, xi,
                 uniqueEmployees, rThrown, exceptRoster>>

\* the fallback fetch fails: the failure propagates to the caller
TrackingFailed ==
  /\ rpc = "await tracking"
  /\ FetchAllPages(trackingTable).kind = "throw"
  /\ rThrown' = FetchAllPages(trackingTable).err
  /\ rpc' = "thrown"
  /\ UNCHANGED <<rosterTable, trackingTable, rQueries, rosterData,
                 sessionData, xi, uniqueEmployees, rResult, exceptRoster>>

\* the fallback fetch returns its rows
TrackingSettled ==
  /\ rpc = "await tracking"
  /\ FetchAllPages(trackingTable).kind = "return"
  /\ sessionData' = FetchAllPages(trackingTable).rows
  /\ xi' = 1
  /\ uniqueEmployees' = <<>>
  /\ rpc' = "dedupe"
  /\ UNCHANGED <<rosterTable, trackingTable, rQueries, rosterData, rResult,
                 rThrown, exceptRoster>>

\* sessionData.forEach: one iteration
ExtractRow ==
  /\ rpc = "dedupe"
  /\ xi <= Len(sessionData)
  /\ LET s == sessionData[xi]
         key == RosterKey(s)
     IN IF ~Truthy(s.employee_name)
        THEN UNCHANGED uniqueEmployees
        ELSE IF ~MapHas(uniqueEmployees, key)
                  \/ HasMoreInfo(uniqueEmployees, key, s)
        THEN \E g \in GenIds :
               uniqueEmployees' =
                 MapSet(uniqueEmployees, key,
                        [key |-> key, value |-> ExtractEmployee(s, g)])
        ELSE UNCHANGED uniqueEmployees
  /\ xi' = xi + 1
  /\ UNCHANGED <<rosterTable, trackingTable, rpc, rQueries, rosterData,
                 sessionData, rResult, rThrown, exceptRoster>>

\* Array.from(uniqueEmployees.values()), returned also when it is empty
RosterReturn ==
  /\ rpc = "dedupe"
  /\ xi > Len(sessionData)
  /\ rResult' = [i \in 1..Len(uniqueEmployees) |-> uniqueEmployees[i].value]
  /\ rpc' = "returned"
  /\ UNCHANGED <<rosterTable, trackingTable, rQueries, rosterData,
                 sessionData, xi, uniqueEmployees, rThrown, exceptRoster>>

NextRoster ==
  \/ RosterStart
  \/ RosterSettled
  \/ TrackingFailed
  \/ TrackingSettled
  \/ ExtractRow
  \/ RosterReturn

SpecRoster == InitRoster /\ [][NextRoster]_vars

\* ---------------------------------------------------------------------
\* getDashboardSessions (lib/dataFetcher)
\* ---------------------------------------------------------------------
MaxDashRows == 2

\* no nested employee reference on the row
AbsentRef ==
  [present |-> FALSE, full_name |-> Undef, first_name |-> Undef,
   last_name |-> Undef, program |-> Undef, avatar_url |-> Undef]
\* the nested reference the joined select embeds
JoinedRef(first, last) ==
  [present |-> TRUE, full_name |-> Undef, first_name |-> first,
   last_name |-> last, program |-> Undef, avatar_url |-> A_url]

\* a session_tracking row as getDashboardSessions reads it
DashRow(ref, ename, prog, pname, capProg) ==
  [employee_manager |-> ref, employee_name |-> ename, program |-> prog,
   program_name |-> pname, Program |-> capProg]

DashRows ==
  { DashRow(JoinedRef(N_Al, N_Jo), Undef, P_Eng, Undef, Undef),
    DashRow(AbsentRef, N_AlJo, Undef, P_Ops, Undef),
    DashRow(AbsentRef, Undef, Undef, Undef, P_Eng),
    DashRow(AbsentRef, N_Bo, Undef, Undef, Undef) }

DashTables ==
  { [rows |-> r, err |-> NoError] : r \in SeqsUpTo(DashRows, MaxDashRows) }
    \cup { [rows |-> <<>>, err |-> e] : e \in TableErrors }

JoinQuery == [select |-> "*, employee_manager(...)", orderBy |-> "session_date"]
FlatQuery == [select |-> "*", orderBy |-> "created_at"]

\* the transform of one flat row
\* a transform that leaves the row as fetched
Adapt_AsFetched(s) == s

Adapt(s) ==
  IF ~s.employee_manager.present
  THEN LET name == Or(s.employee_name, STR_Unknown)
       IN [s EXCEPT !.employee_manager =
             [present |-> TRUE,
              full_name |-> name,
              first_name |-> SplitFirst(name),
              last_name |-> SplitRest(name),
              program |-> Or(s.program, Or(s.program_name, s.Program)),
              avatar_url |-> Undef]]
  ELSE s

\* the try block returns whatever the joined fetch returns
\* a join that is trusted only when it has rows
JoinReturns_NonEmpty(out) == out.kind = "return" /\ Len(out.rows) > 0

JoinReturns(out) == out.kind = "return"

InitDash ==
  /\ FetchIdle
  /\ AggIdle
  /\ ChartIdle
  /\ LoginIdle
  /\ RouteIdle
  /\ RosterIdle
  /\ ViewIdle
  /\ joinTable \in DashTables
  /\ flatTable \in DashTables
  /\ dpc = "start"
  /\ dQueries = <<>>
  /\ dResult = <<>>
  /\ dThrown = NoError

\* the call up to the first await: the silent joined fetch is issued
SessionsStart ==
  /\ dpc = "start"
  /\ dQueries' = Append(dQueries, JoinQuery)
  /\ dpc' = "await join"
  /\ UNCHANGED <<joinTable, flatTable, dResult, dThrown, exceptDash>>

\* the joined fetch settles: its rows are returned as they are; a failure
\* is caught and the flat fetch is issued
JoinSettled ==
  /\ dpc = "await join"
  /\ LET out == FetchAllPages(joinTable)
     IN IF JoinReturns(out)
        THEN /\ dResult' = out.rows
             /\ dpc' = "returned"
             /\ UNCHANGED dQueries
        ELSE /\ dQueries' = Append(dQueries, FlatQuery)
             /\ dpc' = "await flat"
             /\ UNCHANGED dResult
  /\ UNCHANGED <<joinTable, flatTable, dThrown, exceptDash>>

\* the flat fetch fails: the failure propagates to the caller
FlatFailed ==
  /\ dpc = "await flat"
  /\ FetchAllPages(flatTable).kind = "throw"
  /\ dThrown' = FetchAllPages(flatTable).err
  /\ dpc' = "thrown"
  /\ UNCHANGED <<joinTable, flatTable, dQueries, dResult, exceptDash>>

\* the flat fetch returns: every row is adapted
FlatSettled ==
  /\ dpc = "await flat"
  /\ FetchAllPages(flatTable).kind = "return"
  /\ LET rawData == FetchAllPages(flatTable).rows
     IN dResult' = [i \in 1..Len(rawData) |-> Adapt(rawData[i])]
  /\ dpc' = "returned"
  /\ UNCHANGED <<joinTable, flatTable, dQueries, dThrown, exceptDash>>

NextDash ==
  \/ SessionsStart
  \/ JoinSettled
  \/ FlatFailed
  \/ FlatSettled

SpecDash == InitDash /\ [][NextDash]_vars

\* ---------------------------------------------------------------------
\* SessionDashboard and EmployeeDashboard: loadData
\* ---------------------------------------------------------------------
\* what the remote holds while a dashboard loads
LoadRosterTables ==
  { [rows |-> <<Employee(3, Undef, Undef, Undef, N_Bo, N_Jo, Undef, Undef),
               Employee(4, Undef, N_AlJo, Undef, N_Al, Undef, P_Eng, Undef),
               Employee(1, N_Bo, Undef, Undef, Undef, Undef, Undef, Undef)>>,
     err |-> NoError],
    [rows |-> <<>>, err |-> NoError],
    [rows |-> <<>>, err |-> [code |-> "42P01",
                             message |-> "relation does not exist"]] }

LoadTrackingTables ==
  { [rows |-> <<TrackingRow(NoId, N_Bo, Undef, P_Ops, Undef, C_Ac, M_b, 2),
               TrackingRow(42, N_AlJo, P_Eng, Undef, Undef, C_Ac, Undef, 2)>>,
     err |-> NoError],
    [rows |-> <<>>, err |-> [code |-> "", message |-> "Failed to fetch"]] }

LoadJoinTables ==
  { [rows |-> <<DashRow(JoinedRef(N_Al, N_Jo), Undef, P_Eng, Undef, Undef)>>,
     err |-> NoError],
    [rows |-> <<>>, err |-> [code |-> "PGRST200",
                             message |-> "no relationship found"]] }

LoadFlatTables ==
  { [rows |-> <<DashRow(AbsentRef, N_AlJo, Undef, P_Ops, Undef)>>,
     err |-> NoError],
    [rows |-> <<>>, err |-> [code |-> "", message |-> ""]] }

\* Promise.all over the two calls: rejected as soon as one has rejected,
\* fulfilled when both have fulfilled
\* a combinator that waits for both to settle
PromiseAll_AllSettled(d, r) ==
  IF d \in {"returned", "thrown"} /\ r \in {"returned", "thrown"}
  THEN IF d = "thrown" \/ r = "thrown" THEN "rejected" ELSE "fulfilled"
  ELSE "pending"

\* a combinator fulfilled by the first call that returns
PromiseAll_FirstSettled(d, r) ==
  IF d = "thrown" \/ r = "thrown" THEN "rejected"
  ELSE IF d = "returned" \/ r = "returned" THEN "fulfilled"
  ELSE "pending"

PromiseAll(d, r) ==
  IF d = "thrown" \/ r = "thrown" THEN "rejected"
  ELSE IF d = "returned" /\ r = "returned" THEN "fulfilled"
  ELSE "pending"

\* the rejection reason of Promise.all: the first rejection; the sessions
\* call is never left rejected while the roster call rejects
RejectionReason == IF dpc = "thrown" THEN dThrown ELSE rThrown

\* JSON.stringify(err)
Stringify(err) ==
  "{\"code\":\"" \o err.code \o "\",\"message\":\"" \o err.message \o "\"}"

\* err.message || (typeof err === 'object' ? JSON.stringify(err) : String(err))
ErrorMessage(err) == IF err.message # "" THEN err.message ELSE Stringify(err)

\* err.message || "Failed to load employee roster."
RosterErrorMessage(err) ==
  IF err.message # "" THEN err.message
  ELSE "Failed to load employee roster."

\* if (mounted) setX(new)
\* a setter that is not guarded
IfMounted_Always(m, new, old) == new

IfMounted(m, new, old) == IF m THEN new ELSE old

\* a field of an employee record, undefined when the record lacks it
Field(emp, f) == IF f \in DOMAIN emp THEN emp[f] ELSE Undef

getLastName(emp) ==
  IF Truthy(Field(emp, "last_name")) THEN emp.last_name
  ELSE LET fullName == Or(Field(emp, "employee_name"),
                          Or(Field(emp, "full_name"),
                             Or(Field(emp, "name"), <<>>)))
       IN IF ~Truthy(fullName) THEN <<"-">> ELSE SplitRest(Trim(fullName))

\* localeCompare of lowercased names: blank, hyphen, then the letters
CharRank(c) ==
  IF c = " " THEN 0
  ELSE IF c = "-" THEN 1
  ELSE IF \E i \in 1..26 : LowerLetters[i] = c
       THEN 1 + (CHOOSE i \in 1..26 : LowerLetters[i] = c)
       ELSE 28

\* a.localeCompare(b) < 0
StrLess(a, b) ==
  \E i \in 1..(Min(Len(a), Len(b)) + 1) :
    /\ \A j \in 1..(i - 1) : CharRank(a[j]) = CharRank(b[j])
    /\ \/ i > Len(a) /\ i <= Len(b)
       \/ i <= Len(a) /\ i <= Len(b) /\ CharRank(a[i]) < CharRank(b[i])

SortKey(emp) == ToLowerCase(getLastName(emp))

\* one element put after the elements that do not sort after it
InsertSorted(sorted, emp) ==
  LET before == { i \in 1..Len(sorted) :
                    ~StrLess(SortKey(emp), SortKey(sorted[i])) }
      p == IF before = {} THEN 0
           ELSE CHOOSE i \in before : \A j \in before : j <= i
  IN SubSeq(sorted, 1, p) \o <<emp>> \o SubSeq(sorted, p + 1, Len(sorted))

RECURSIVE SortPrefix(_, _)
SortPrefix(list, n) ==
  IF n = 0 THEN <<>> ELSE InsertSorted(SortPrefix(list, n - 1), list[n])

\* [...list].sort(by lowercased last name); Array.prototype.sort is stable
sortEmployees(list) == SortPrefix(list, Len(list))

InitLoad ==
  /\ FetchIdle
  /\ AggIdle
  /\ ChartIdle
  /\ LoginIdle
  /\ RouteIdle
  /\ view \in {"sessions", "employees"}
  /\ rosterTable \in LoadRosterTables
  /\ trackingTable \in LoadTrackingTables
  /\ IF view = "sessions"
     THEN joinTable \in LoadJoinTables /\ flatTable \in LoadFlatTables
     ELSE joinTable = [rows |-> <<>>, err |-> NoError]
            /\ flatTable = [rows |-> <<>>, err |-> NoError]
  /\ rpc = "start"
  /\ rQueries = <<>>
  /\ rosterData = <<>>
  /\ sessionData = <<>>
  /\ xi = 1
  /\ uniqueEmployees = <<>>
  /\ rResult = <<>>
  /\ rThrown = NoError
  /\ dpc = IF view = "sessions" THEN "start" ELSE "idle"
  /\ dQueries = <<>>
  /\ dResult = <<>>
  /\ dThrown = NoError
  /\ mounted = (view = "sessions")
  /\ loading = TRUE
  /\ error = NoMessage
  /\ lpc = "idle"
  /\ empEmployees = <<>>
  /\ empMounted = (view = "employees")
  /\ empLoading = TRUE
  /\ empError = NoMessage
  /\ epc = "idle"
  /\ empSearchTerm = <<>>
  /\ empFilterProgram = STR_AllPrograms

tableVars == <<rosterTable, trackingTable, joinTable, flatTable>>

\* SessionDashboard's effect: loadData up to its await; both calls run
\* up to their first await, each issuing its first query
LoadStart ==
  /\ view = "sessions"
  /\ lpc = "idle"
  /\ loading' = TRUE
  /\ dQueries' = Append(dQueries, JoinQuery)
  /\ dpc' = "await join"
  /\ rQueries' = Append(rQueries, "employee_manager")
  /\ rpc' = "await roster"
  /\ lpc' = "pending"
  /\ UNCHANGED <<fetchVars, routeVars, loginVars, chartVars,
                 empFilterVars, aggVars, tableVars, rosterData, sessionData, xi,
                 uniqueEmployees, rResult, rThrown, dResult, dThrown, view,
                 mounted, error, empVars>>

\* a promise reaction of loadData is due: it runs before any other task
SettleReady ==
  \/ lpc = "pending" /\ PromiseAll(dpc, rpc) # "pending"
  \/ epc = "pending" /\ rpc \in {"returned", "thrown"}

\* both calls fulfilled: the data are stored together
LoadFulfilled ==
  /\ lpc = "pending"
  /\ PromiseAll(dpc, rpc) = "fulfilled"
  /\ sessions' = IfMounted(mounted, dResult, sessions)
  /\ employees' = IfMounted(mounted, rResult, employees)
  /\ error' = IfMounted(mounted, NoMessage, error)
  /\ loading' = IfMounted(mounted, FALSE, loading)
  /\ lpc' = "done"
  /\ UNCHANGED <<fetchVars, routeVars, loginVars, chartVars,
                 empFilterVars, now, nowAt, apc, ei, si, statsMap,
                 aggregatedStats, searchTerm, filterProgram, rosterVars,
                 dashVars, view, mounted, empVars>>

\* one call rejected: the message is stored
LoadRejected ==
  /\ lpc = "pending"
  /\ PromiseAll(dpc, rpc) = "rejected"
  /\ error' = IfMounted(mounted, ErrorMessage(RejectionReason), error)
  /\ loading' = IfMounted(mounted, FALSE, loading)
  /\ lpc' = "done"
  /\ UNCHANGED <<fetchVars, routeVars, loginVars, chartVars,
                 empFilterVars, aggVars, rosterVars, dashVars, view, mounted,
                 empVars>>

\* the effect's cleanup
Unmount ==
  /\ view = "sessions"
  /\ lpc # "idle"
  /\ mounted
  /\ ~SettleReady
  /\ mounted' = FALSE
  /\ UNCHANGED <<fetchVars, routeVars, loginVars, chartVars,
                 empFilterVars, aggVars, rosterVars, dashVars, view, loading,
                 error, lpc, empVars>>

\* EmployeeDashboard's effect: loadData up to its await
EmpLoadStart ==
  /\ view = "employees"
  /\ epc = "idle"
  /\ empLoading' = TRUE
  /\ rQueries' = Append(rQueries, "employee_manager")
  /\ rpc' = "await roster"
  /\ epc' = "pending"
  /\ UNCHANGED <<fetchVars, routeVars, loginVars, chartVars,
                 empFilterVars, aggVars, tableVars, rosterData, sessionData, xi,
                 uniqueEmployees, rResult, rThrown, dpc, dQueries, dResult,
                 dThrown, loadVars, empEmployees, empMounted, empError>>

EmpLoadFulfilled ==
  /\ epc = "pending"
  /\ rpc = "returned"
  /\ empEmployees' = IfMounted(empMounted, sortEmployees(rResult),
                               empEmployees)
  /\ empError' = IfMounted(empMounted, NoMessage, empError)
  /\ empLoading' = IfMounted(empMounted, FALSE, empLoading)
  /\ epc' = "done"
  /\ UNCHANGED <<fetchVars, routeVars, loginVars, chartVars,
                 empFilterVars, aggVars, rosterVars, dashVars, loadVars,
                 empMounted>>

EmpLoadRejected ==
  /\ epc = "pending"
  /\ rpc = "thrown"
  /\ empError' = IfMounted(empMounted, RosterErrorMessage(rThrown), empError)
  /\ empLoading' = IfMounted(empMounted, FALSE, empLoading)
  /\ epc' = "done"
  /\ UNCHANGED <<fetchVars, routeVars, loginVars, chartVars,
                 empFilterVars, aggVars, rosterVars, dashVars, loadVars,
                 empEmployees, empMounted>>

EmpUnmount ==
  /\ view = "employees"
  /\ epc # "idle"
  /\ empMounted
  /\ ~SettleReady
  /\ empMounted' = FALSE
  /\ UNCHANGED <<fetchVars, routeVars, loginVars, chartVars,
                 empFilterVars, aggVars, rosterVars, dashVars, loadVars,
                 empEmployees, empLoading, empError, epc>>

\* the calls' continuations run as their fetches settle, whether or not
\* the view is still mounted
NextLoad ==
  \/ LoadStart
  \/ LoadFulfilled
  \/ LoadRejected
  \/ Unmount
  \/ EmpLoadStart
  \/ EmpLoadFulfilled
  \/ EmpLoadRejected
  \/ EmpUnmount
  \/ ~SettleReady /\ RosterSettled
  \/ ~SettleReady /\ TrackingFailed
  \/ ~SettleReady /\ TrackingSettled
  \/ ~SettleReady /\ ExtractRow
  \/ ~SettleReady /\ RosterReturn
  \/ ~SettleReady /\ JoinSettled
  \/ ~SettleReady /\ FlatFailed
  \/ ~SettleReady /\ FlatSettled

SpecLoad == InitLoad /\ [][NextLoad]_vars

\* a settled promise's reaction is a queued microtask: the event loop
\* runs it
SpecLoadFair ==
  SpecLoad /\ WF_vars(LoadFulfilled) /\ WF_vars(LoadRejected)

\* ---------------------------------------------------------------------
\* ProtectedRoute
\* ---------------------------------------------------------------------
MaxNotifications == 2

\* the sessions the collaborator can hold: none, or one of two tokens
SessionValues == {NoSession, 1, 2}

\* what the component renders
\* a route that does not wait for the check
RouteRender_NoSpinner ==
  IF ~prMounted THEN "none"
  ELSE IF prSession = NoSession THEN "redirect"
  ELSE "children"

RouteRender ==
  IF ~prMounted THEN "none"
  ELSE IF checking THEN "spinner"
  ELSE IF prSession = NoSession THEN "redirect"
  ELSE "children"

InitRoute ==
  /\ FetchIdle
  /\ AggIdle
  /\ ChartIdle
  /\ LoginIdle
  /\ RosterIdle
  /\ DashIdle
  /\ ViewIdle
  /\ authSession \in SessionValues
  /\ prSession = NoSession
  /\ checking = TRUE
  /\ prMounted = FALSE
  /\ gpc = "idle"
  /\ gsValue = NoSession
  /\ gsFailed = FALSE
  /\ notes = 0
  /\ delivered = FALSE

\* mount: the effect calls checkSession, which calls getSession, and
\* subscribes to auth changes
RouteMount ==
  /\ ~prMounted
  /\ gpc = "idle"
  /\ prMounted' = TRUE
  /\ gpc' = "pending"
  /\ UNCHANGED <<authSession, prSession, checking, gsValue, gsFailed, notes,
                 delivered, exceptRoute>>

\* the collaborator reads its session for the pending getSession
GetSessionRead ==
  /\ gpc = "pending"
  /\ gsValue' = authSession
  /\ gpc' = "read"
  /\ UNCHANGED <<authSession, prSession, checking, prMounted, gsFailed,
                 notes, delivered, exceptRoute>>

\* getSession resolves: setSession(session), then finally
\* setChecking(false); setters of an unmounted component have no effect
GetSessionResolve ==
  /\ gpc = "read"
  /\ prSession' = IF prMounted THEN gsValue ELSE prSession
  /\ checking' = IF prMounted THEN FALSE ELSE checking
  /\ gpc' = "done"
  /\ UNCHANGED <<authSession, prMounted, gsValue, gsFailed, notes,
                 delivered, exceptRoute>>

\* getSession rejects: the error is logged, then finally setChecking(false)
GetSessionReject ==
  /\ gpc \in {"pending", "read"}
  /\ checking' = IF prMounted THEN FALSE ELSE checking
  /\ gsFailed' = TRUE
  /\ gpc' = "done"
  /\ UNCHANGED <<authSession, prSession, prMounted, gsValue, notes,
                 delivered, exceptRoute>>

\* the collaborator's session changes (sign in, sign out, token refresh);
\* a subscribed component is notified
AuthChange ==
  /\ notes < MaxNotifications
  /\ \E s \in SessionValues :
       /\ authSession' = s
       /\ prSession' = IF prMounted THEN s ELSE prSession
  /\ checking' = IF prMounted THEN FALSE ELSE checking
  /\ delivered' = (delivered \/ prMounted)
  /\ notes' = notes + 1
  /\ UNCHANGED <<prMounted, gpc, gsValue, gsFailed, exceptRoute>>

\* the effect's cleanup: subscription.unsubscribe()
RouteUnmount ==
  /\ prMounted
  /\ prMounted' = FALSE
  /\ UNCHANGED <<authSession, prSession, checking, gpc, gsValue, gsFailed,
                 notes, delivered, exceptRoute>>

NextRoute ==
  \/ RouteMount
  \/ GetSessionRead
  \/ GetSessionResolve
  \/ GetSessionReject
  \/ AuthChange
  \/ RouteUnmount

SpecRoute == InitRoute /\ [][NextRoute]_vars

\* ---------------------------------------------------------------------
\* LoginPage: handleLogin
\* ---------------------------------------------------------------------
MaxAttempts == 2

Emails == {"", "al@acme.test", "bo@acme.test"}
Passwords == {"", "secret"}

\* the accounts the authentication collaborator knows
Registered(req) == req.email = "al@acme.test" /\ req.password = "secret"

NoAuthError == [message |-> "<none>"]

\* what signInWithPassword resolves to: a user and no error, or no user
\* and an error
SignInResponses(req) ==
  (IF Registered(req) THEN {[user |-> TRUE, error |-> NoAuthError]} ELSE {})
    \cup { [user |-> FALSE, error |-> [message |-> m]] :
             m \in {"Invalid login credentials", ""} }

\* what it can reject with
SignInExceptions == { [message |-> "Failed to fetch"], [message |-> ""] }

\* err.message || 'An error occurred during login'
\* the message as the failure carries it
LoginMessage_Raw(err) == err.message

LoginMessage(err) ==
  IF err.message # "" THEN err.message ELSE "An error occurred during login"

InitLogin ==
  /\ ChartIdle
  /\ FetchIdle
  /\ AggIdle
  /\ RosterIdle
  /\ DashIdle
  /\ ViewIdle
  /\ RouteIdle
  /\ LoginIdle

SetEmail ==
  /\ ~navigated
  /\ \E e \in Emails : e # lgEmail /\ lgEmail' = e
  /\ UNCHANGED <<lgPassword, lgLoading, lgError, lgpc, lgRequest, navigated,
                 attempts, lgLast, exceptLogin>>

SetPassword ==
  /\ ~navigated
  /\ \E w \in Passwords : w # lgPassword /\ lgPassword' = w
  /\ UNCHANGED <<lgEmail, lgLoading, lgError, lgpc, lgRequest, navigated,
                 attempts, lgLast, exceptLogin>>

\* the form is submitted (the submit button is disabled while loading):
\* handleLogin up to its await
LoginSubmit ==
  /\ ~navigated
  /\ ~lgLoading
  /\ lgpc = "idle"
  /\ attempts < MaxAttempts
  /\ lgLoading' = TRUE
  /\ lgError' = NoMessage
  /\ lgRequest' = [email |-> lgEmail, password |-> lgPassword]
  /\ lgpc' = "pending"
  /\ attempts' = attempts + 1
  /\ UNCHANGED <<lgEmail, lgPassword, navigated, lgLast, exceptLogin>>

\* signInWithPassword resolves: a returned error is thrown to the catch
LoginResolved ==
  /\ lgpc = "pending"
  /\ \E resp \in SignInResponses(lgRequest) :
       IF resp.error # NoAuthError
       THEN /\ lgError' = LoginMessage(resp.error)
            /\ lgLast' = "error"
            /\ UNCHANGED navigated
       ELSE /\ navigated' = (navigated \/ resp.user)
            /\ lgLast' = "user"
            /\ UNCHANGED lgError
  /\ lgLoading' = FALSE
  /\ lgpc' = "idle"
  /\ UNCHANGED <<lgEmail, lgPassword, lgRequest, attempts, exceptLogin>>

\* signInWithPassword rejects
LoginThrew ==
  /\ lgpc = "pending"
  /\ \E exc \in SignInExceptions : lgError' = LoginMessage(exc)
  /\ lgLast' = "threw"
  /\ lgLoading' = FALSE
  /\ lgpc' = "idle"
  /\ UNCHANGED <<lgEmail, lgPassword, lgRequest, navigated, attempts,
                 exceptLogin>>

NextLogin ==
  \/ SetEmail
  \/ SetPassword
  \/ LoginSubmit
  \/ LoginResolved
  \/ LoginThrew

SpecLogin == InitLogin /\ [][NextLogin]_vars

\* ---------------------------------------------------------------------
\* SimpleTrendChart: chartData
\* ---------------------------------------------------------------------
MaxChartSessions == 2

ChartStatuses == { <<>>, ST_Completed, ST_Completed_Late_Cancel, ST_Pending }

ChartRows ==
  { SessionRow(NoId, NullRef, N_AlJo, st, d, Undef, Undef) :
      st \in ChartStatuses, d \in DateSet }

\* the calendar: instants 0 and 1 fall in November 2023, 2 and 3 in
\* December 2023, 4 and 5 in January 2024
NaN == -1
getFullYear(d) == IF d = InvalidDate THEN NaN ELSE 2023 + (10 + d \div 2) \div 12
getMonth(d) == IF d = InvalidDate THEN NaN ELSE (10 + d \div 2) % 12

STR_NaN == <<"N", "a", "N">>
\* String(n) and `${n}`
NumToStr(n) == IF n = NaN THEN STR_NaN ELSE IntToStr(n)
\* s.padStart(2, '0')
PadStart2(str) ==
  IF Len(str) >= 2 THEN str
  ELSE IF Len(str) = 1 THEN <<"0">> \o str
  ELSE <<"0", "0">>

\* `${sessionDate.getFullYear()}-${String(getMonth() + 1).padStart(2, '0')}`
MonthKey(d) ==
  NumToStr(getFullYear(d)) \o <<"-">>
    \o PadStart2(NumToStr(IF getMonth(d) = NaN THEN NaN ELSE getMonth(d) + 1))

\* a predicate without the no-show exclusion
ChartCounts_NoShowCounted(session, t) ==
  LET status == StatusRaw(session)
      isPast == DateLess(session.session_date, t)
  IN Includes(status, STR_completed) \/ (status = <<>> /\ isPast)

\* the test that admits a session to the trend
ChartCounts(session, t) ==
  LET status == StatusRaw(session)
      isPast == DateLess(session.session_date, t)
  IN ~IsNoShow(status)
       /\ (Includes(status, STR_completed) \/ (status = <<>> /\ isPast))

\* UTF-16 code units of the characters of a key
CodeUnit(c) ==
  IF c = "-" THEN 45
  ELSE IF \E d \in 0..9 : Digit(d) = c
       THEN 48 + (CHOOSE d \in 0..9 : Digit(d) = c)
  ELSE IF c = "N" THEN 78
  ELSE 97

\* the default comparison of Array.prototype.sort
KeyLess(a, b) ==
  \E i \in 1..(Min(Len(a), Len(b)) + 1) :
    /\ \A j \in 1..(i - 1) : a[j] = b[j]
    /\ \/ i > Len(a) /\ i <= Len(b)
       \/ i <= Len(a) /\ i <= Len(b) /\ CodeUnit(a[i]) < CodeUnit(b[i])

InsertKey(sorted, key) ==
  LET before == { i \in 1..Len(sorted) : ~KeyLess(key, sorted[i]) }
      p == IF before = {} THEN 0
           ELSE CHOOSE i \in before : \A j \in before : j <= i
  IN SubSeq(sorted, 1, p) \o <<key>> \o SubSeq(sorted, p + 1, Len(sorted))

RECURSIVE SortKeys(_, _)
\* Object.keys(monthlyCounts).sort()
SortKeys(counts, n) ==
  IF n = 0 THEN <<>> ELSE InsertKey(SortKeys(counts, n - 1), counts[n].key)

RECURSIVE ParseDigits(_)
ParseDigits(str) ==
  IF str = <<>> THEN 0
  ELSE 10 * ParseDigits(SubSeq(str, 1, Len(str) - 1))
         + (CHOOSE d \in 0..9 : Digit(d) = str[Len(str)])

\* parseInt of a part of a key
ParseInt(str) ==
  IF str = <<>> \/ \E i \in 1..Len(str) : \A d \in 0..9 : Digit(d) # str[i]
  THEN NaN
  ELSE ParseDigits(str)

\* key.split('-'): the text before the first hyphen, and the text
\* between the first and the second
DashAt(key) == CHOOSE i \in 1..Len(key) : key[i] = "-" /\ \A j \in 1..(i - 1) : key[j] # "-"
YearPart(key) == SubSeq(key, 1, DashAt(key) - 1)
MonthPart(key) == SubSeq(key, DashAt(key) + 1, Len(key))

\* date.toLocaleString('default', {month: 'short', year: '2-digit'}) of
\* new Date(parseInt(year), parseInt(month) - 1)
PointLabel(key) ==
  LET y == ParseInt(YearPart(key))
      m == ParseInt(MonthPart(key))
  IN IF y = NaN \/ m = NaN
     THEN [valid |-> FALSE, month |-> 0, year2 |-> 0]
     ELSE [valid |-> TRUE, month |-> m, year2 |-> y % 100]

InitChart ==
  /\ FetchIdle
  /\ RosterIdle
  /\ DashIdle
  /\ ViewIdle
  /\ RouteIdle
  /\ LoginIdle
  /\ employees = <<>>
  /\ sessions \in { NumberRows(rows) :
                      rows \in SeqsUpTo(ChartRows, MaxChartSessions) }
  /\ now = NowStart
  /\ nowAt = <<>>
  /\ apc = "idle"
  /\ ei = 1
  /\ si = 1
  /\ statsMap = <<>>
  /\ aggregatedStats = <<>>
  /\ searchTerm = <<>>
  /\ filterProgram = STR_All
  /\ cpc = "scan"
  /\ ci = 1
  /\ monthlyCounts = <<>>
  /\ chartNowAt = <<>>
  /\ chartData = <<>>

\* if (sessions.length === 0) return []
ChartEmpty ==
  /\ cpc = "scan"
  /\ Len(sessions) = 0
  /\ chartData' = <<>>
  /\ cpc' = "done"
  /\ UNCHANGED <<ci, monthlyCounts, chartNowAt, aggVars, exceptChart>>

\* sessions.forEach: one iteration, which reads the clock
ChartSession ==
  /\ cpc = "scan"
  /\ ci <= Len(sessions)
  /\ \E t \in now..(now + 1) :
       /\ t <= NowStart + MaxTicks
       /\ now' = t
       /\ chartNowAt' = Append(chartNowAt, t)
       /\ LET s == sessions[ci]
              key == MonthKey(s.session_date)
              old == IF MapHas(monthlyCounts, key)
                     THEN MapGet(monthlyCounts, key).value ELSE 0
          IN monthlyCounts' =
               IF ChartCounts(s, t)
               THEN MapSet(monthlyCounts, key,
                           [key |-> key, value |-> old + 1])
               ELSE monthlyCounts
  /\ ci' = ci + 1
  /\ UNCHANGED <<cpc, chartData, employees, sessions, nowAt, apc, ei, si,
                 statsMap, aggregatedStats, searchTerm, filterProgram,
                 exceptChart>>

\* the keys are sorted and mapped to points
ChartReturn ==
  /\ cpc = "scan"
  /\ Len(sessions) > 0
  /\ ci > Len(sessions)
  /\ LET sortedKeys == SortKeys(monthlyCounts, Len(monthlyCounts))
     IN chartData' =
          [j \in 1..Len(sortedKeys) |->
             [label |-> PointLabel(sortedKeys[j]),
              value |-> MapGet(monthlyCounts, sortedKeys[j]).value]]
  /\ cpc' = "done"
  /\ UNCHANGED <<ci, monthlyCounts, chartNowAt, aggVars, exceptChart>>

NextChart ==
  \/ ChartEmpty
  \/ ChartSession
  \/ ChartReturn

SpecChart == InitChart /\ [][NextChart]_vars

\* ---------------------------------------------------------------------
\* EmployeeDashboard: filteredEmployees
\* ---------------------------------------------------------------------
MaxEmpRecords == 2

\* roster employees as either source of getEmployeeRoster delivers them
EmpRecords ==
  { Employee(1, N_AlJo, Undef, Undef, N_Al, N_Jo, P_Eng, Undef),
    Employee(3, Undef, Undef, Undef, N_Bo, N_Jo, Undef, P_Ops),
    ExtractEmployee(
      TrackingRow(42, N_AlJo, Undef, Undef, Undef, Undef, M_b, 1), -101),
    ExtractEmployee(
      TrackingRow(NoId, N_Bo, P_Eng, Undef, Undef, C_Ac, M_a, 2), -102) }

EmpSearchTerms == { <<>>, <<"J", "O">>, <<"B", "@">>, <<"4", "2">>, <<"z">> }
EmpFilterPrograms == { STR_AllPrograms, P_Eng, P_Ops, STR_Unassigned }

\* the own properties of an employee record, in one fixed order; the
\* search terms hold no blank, so a match never spans two values and the
\* order of the values does not matter
FieldOrder ==
  <<"id", "full_name", "employee_name", "name", "first_name", "last_name",
    "program", "program_name", "avatar_url", "account_name", "company",
    "department", "email", "company_email", "created_at">>

\* a value as Array.prototype.join renders it: null and undefined are empty
ValueText(emp, f) ==
  IF f = "id"
  THEN IF emp.id = NoId THEN <<>>
       ELSE IF emp.id \in GenIds
       THEN <<"g", "e", "n", "-">> \o IntToStr(-emp.id)
       ELSE IntToStr(emp.id)
  ELSE IF f = "created_at" THEN IntToStr(emp.created_at)
  ELSE IF emp[f] = Undef THEN <<>>
  ELSE emp[f]

RECURSIVE JoinFrom(_, _, _)
JoinFrom(emp, n, first) ==
  IF n > Len(FieldOrder) THEN <<>>
  ELSE IF FieldOrder[n] \notin DOMAIN emp THEN JoinFrom(emp, n + 1, first)
  ELSE (IF first THEN <<>> ELSE <<" ">>)
         \o ValueText(emp, FieldOrder[n]) \o JoinFrom(emp, n + 1, FALSE)

\* Object.values(emp).join(' ')
JoinValues(emp) == JoinFrom(emp, 1, TRUE)

\* emp.program || emp.program_name || emp.Program || 'Unassigned'
EmpProgram(emp) ==
  Or(Field(emp, "program"),
     Or(Field(emp, "program_name"), Or(Field(emp, "Program"), STR_Unassigned)))

getFirstName(emp) ==
  IF Truthy(Field(emp, "first_name")) THEN emp.first_name
  ELSE LET fullName == Or(Field(emp, "employee_name"),
                          Or(Field(emp, "full_name"),
                             Or(Field(emp, "name"), <<>>)))
       IN IF ~Truthy(fullName) THEN <<"-">> ELSE SplitFirst(Trim(fullName))

\* a search over the displayed name only
EmpMatchesSearch_NameOnly(emp, term) ==
  Includes(ToLowerCase(getFirstName(emp) \o <<" ">> \o getLastName(emp)),
           ToLowerCase(term))

EmpMatchesSearch(emp, term) ==
  Includes(ToLowerCase(JoinValues(emp)), ToLowerCase(term))

EmpMatchesFilter(emp, prog) ==
  prog = STR_AllPrograms \/ EmpProgram(emp) = prog

filteredEmployees ==
  { i \in 1..Len(empEmployees) :
      /\ EmpMatchesSearch(empEmployees[i], empSearchTerm)
      /\ EmpMatchesFilter(empEmployees[i], empFilterProgram) }

\* the roster view once its load has stored the sorted roster
InitEmpFilter ==
  /\ FetchIdle
  /\ AggIdle
  /\ RosterIdle
  /\ DashIdle
  /\ RouteIdle
  /\ LoginIdle
  /\ ChartIdle
  /\ view = "employees"
  /\ mounted = FALSE
  /\ loading = TRUE
  /\ error = NoMessage
  /\ lpc = "idle"
  /\ \E list \in SeqsUpTo(EmpRecords, MaxEmpRecords) :
       Injective(list) /\ empEmployees = sortEmployees(list)
  /\ empMounted = TRUE
  /\ empLoading = FALSE
  /\ empError = NoMessage
  /\ epc = "done"
  /\ empSearchTerm = <<>>
  /\ empFilterProgram = STR_AllPrograms

\* onChange of the search box
SetEmpSearchTerm ==
  /\ epc = "done"
  /\ \E t \in EmpSearchTerms : empSearchTerm' = t
  /\ UNCHANGED <<empFilterProgram, fetchVars, aggVars, rosterVars, dashVars,
                 loadVars, empVars, routeVars, loginVars, chartVars>>

\* onChange of the program select
SetEmpFilterProgram ==
  /\ epc = "done"
  /\ \E q \in EmpFilterPrograms : empFilterProgram' = q
  /\ UNCHANGED <<empSearchTerm, fetchVars, aggVars, rosterVars, dashVars,
                 loadVars, empVars, routeVars, loginVars, chartVars>>

NextEmpFilter == SetEmpSearchTerm \/ SetEmpFilterProgram

SpecEmpFilter == InitEmpFilter /\ [][NextEmpFilter]_vars

\* ---------------------------------------------------------------------
\* The sessions pipeline: getDashboardSessions, then aggregatedStats
\* ---------------------------------------------------------------------
MaxPipeEmployees == 1

\* session_tracking rows with the columns both stages read
PipeRow(ref, ename, eid, status, date) ==
  DashRow(ref, ename, Undef, Undef, Undef)
    @@ [employee_id |-> eid, status |-> status, session_date |-> date]

PipeRows ==
  { PipeRow(JoinedRef(N_Al, N_Jo), Undef, 1, ST_Completed, 1),
    PipeRow(AbsentRef, Undef, NoId, ST_Completed, 1),
    PipeRow(AbsentRef, Undef, 9, ST_No_Show, 3),
    PipeRow(AbsentRef, N_Bo, NoId, ST_Pending, 5) }

PipeNumber(rows) == [i \in 1..Len(rows) |-> rows[i] @@ [id |-> 100 + i]]

PipeTables ==
  { [rows |-> PipeNumber(r), err |-> NoError] :
      r \in SeqsUpTo(PipeRows, MaxDashRows) }
    \cup { [rows |-> <<>>, err |-> e] : e \in TableErrors }

PipeEmployees ==
  { Employee(1, N_AlJo, Undef, Undef, N_Al, N_Jo, P_Eng, Undef),
    Employee(3, Undef, Undef, Undef, N_Bo, N_Jo, Undef, P_Ops) }

\* the roster has arrived; the sessions fetch is about to start
InitPipe ==
  /\ FetchIdle
  /\ RosterIdle
  /\ ViewIdle
  /\ RouteIdle
  /\ LoginIdle
  /\ ChartIdle
  /\ joinTable \in PipeTables
  /\ flatTable \in (IF joinTable.err = NoError
                    THEN {[rows |-> <<>>, err |-> NoError]}
                    ELSE PipeTables)
  /\ dpc = "start"
  /\ dQueries = <<>>
  /\ dResult = <<>>
  /\ dThrown = NoError
  /\ employees \in SeqsUpTo(PipeEmployees, MaxPipeEmployees)
  /\ sessions = <<>>
  /\ now = NowStart
  /\ nowAt = <<>>
  /\ apc = "idle"
  /\ ei = 1
  /\ si = 1
  /\ statsMap = <<>>
  /\ aggregatedStats = <<>>
  /\ searchTerm = <<>>
  /\ filterProgram = STR_All

\* setSessions(sessionsData): the memo recomputes from the new sessions
PipeSetSessions ==
  /\ dpc = "returned"
  /\ apc = "idle"
  /\ sessions' = dResult
  /\ apc' = "roster"
  /\ UNCHANGED <<employees, now, nowAt, ei, si, statsMap, aggregatedStats,
                 searchTerm, filterProgram, fetchVars, restVars>>

NextPipe ==
  \/ SessionsStart
  \/ JoinSettled
  \/ FlatFailed
  \/ FlatSettled
  \/ PipeSetSessions
  \/ AggSeed
  \/ AggSession
  \/ AggReturn

SpecPipe == InitPipe /\ [][NextPipe]_vars

\* the memo as one function of the roster, the sessions and the moment
RECURSIVE SeedAll(_, _)
SeedAll(emps, n) ==
  IF n = 0 THEN <<>>
  ELSE LET entry == SeedEntry(emps[n])
       IN MapSet(SeedAll(emps, n - 1), entry.key, entry)

RECURSIVE CountAll(_, _, _, _)
CountAll(seeded, sess, n, t) ==
  IF n = 0 THEN seeded
  ELSE LET m == CountAll(seeded, sess, n - 1, t)
           session == sess[n]
           key == StatKey(SessionEmployeeName(session))
           map1 == IF ~MapHas(m, key)
                   THEN MapSet(m, key, SessionEntry(session))
                   ELSE m
       IN MapSet(map1, key, Count(MapGet(map1, key), session, t))

aggregatedStatsAt(emps, sess, t) ==
  CountAll(SeedAll(emps, Len(emps)), sess, Len(sess), t)

\* ---------------------------------------------------------------------
\* SessionDashboard render: aggregatedStats, then the trend chart
\* ---------------------------------------------------------------------
TrendRows ==
  { SessionRow(NoId, NullRef, N_AlJo, ST_Completed, 1, Undef, Undef),
    SessionRow(NoId, NullRef, N_AlJo, ST_Completed, InvalidDate, Undef, Undef),
    SessionRow(NoId, NullRef, N_Bo, ST_Completed_Late_Cancel, 1, P_Ops, Undef),
    SessionRow(NoId, NullRef, N_Bo, <<>>, 2, P_Ops, Undef),
    SessionRow(NoId, NullRef, N_Bo, <<>>, 5, Undef, Undef),
    SessionRow(NoId, NullRef, N_AlJo, ST_Pending, 3, Undef, Undef) }

TrendRosters ==
  { <<>>, <<Employee(1, N_AlJo, Undef, Undef, N_Al, N_Jo, P_Eng, Undef)>> }

\* the render that follows setSessions and setEmployees
InitTrend ==
  /\ FetchIdle
  /\ RosterIdle
  /\ DashIdle
  /\ ViewIdle
  /\ RouteIdle
  /\ LoginIdle
  /\ employees \in TrendRosters
  /\ sessions \in { NumberRows(rows) :
                      rows \in SeqsUpTo(TrendRows, MaxChartSessions) }
  /\ now = NowStart
  /\ nowAt = <<>>
  /\ apc = "roster"
  /\ ei = 1
  /\ si = 1
  /\ statsMap = <<>>
  /\ aggregatedStats = <<>>
  /\ searchTerm = <<>>
  /\ filterProgram = STR_All
  /\ cpc = "scan"
  /\ ci = 1
  /\ monthlyCounts = <<>>
  /\ chartNowAt = <<>>
  /\ chartData = <<>>

\* the parent's memo is computed before the child chart renders; the
\* filters are changed between renders
NextTrend ==
  \/ AggSeed
  \/ AggSession
  \/ AggReturn
  \/ apc = "ready" /\ ChartEmpty
  \/ apc = "ready" /\ ChartSession
  \/ apc = "ready" /\ ChartReturn
  \/ cpc = "done" /\ SetSearchTerm
  \/ cpc = "done" /\ SetFilterProgram

SpecTrend == InitTrend /\ [][NextTrend]_vars

\* ---------------------------------------------------------------------
\* Properties of fetchAllPages
\* ---------------------------------------------------------------------
RowCount(segs) ==
  LET RECURSIVE Sum(_)
      Sum(i) == IF i = 0 THEN 0 ELSE Sum(i - 1) + (segs[i][2] - segs[i][1] + 1)
  IN Sum(Len(segs))

\* segs is exactly the offsets 0 .. n-1, in order, cut at page boundaries
InOrderRows(segs, n) ==
  /\ RowCount(segs) = n
  /\ \A i \in 1..Len(segs) :
       /\ segs[i][1] = (IF i = 1 THEN 0 ELSE segs[i - 1][2] + 1)
       /\ segs[i][1] <= segs[i][2]

\* C1: for a table of N rows (N below the safety cap) the fetch issues
\* exactly floor(N/1000)+1 requests, request k covering
\* [1000k, 1000k+999], all pages but the last one full, and returns the N
\* rows in page-arrival order, whatever the filter and the order column.
C1_Pagination ==
  (fpc = "returned" /\ src.failAt = NoFail /\ src.rows # Endless
     /\ src.rows < SafetyPages * pageSize)
  => /\ Len(requests) = (src.rows \div 1000) + 1
     /\ \A i \in 1..Len(requests) :
          /\ requests[i].from = 1000 * (i - 1)
          /\ requests[i].to = 1000 * (i - 1) + 999
          /\ requests[i].filters = call.filters
          /\ requests[i].orderBy = call.orderBy
          /\ (RangeRows(src, requests[i].from, requests[i].to) < 1000)
               <=> (i = Len(requests))
     /\ InOrderRows(returned, src.rows)

C1_Witness ==
  /\ fpc = "returned"
  /\ src.rows = 2400 /\ src.failAt = NoFail
  /\ call.filters # "identity"
  /\ Len(requests) = 3
  /\ RowCount(returned) = 2400

\* C2: every call ends after at most 50 page requests with at most 50,000
\* rows, and a source that never fails makes the call return normally.
C2_SafetyCap ==
  /\ Len(requests) <= 50
  /\ RowCount(allData) <= 50000
  /\ (src.failAt = NoFail => fpc # "thrown")

\* C3: when a page query fails, that request is the last one issued, the
\* call returns nothing and raises the very object the query reported, in
\* silent and in loud mode; a call that returned met no failing page.
C3_FailureInv ==
  /\ fpc = "thrown" =>
       /\ thrown = src.err
       /\ returned = <<>>
       /\ Len(requests) = src.failAt + 1
  /\ fpc = "returned" =>
       /\ thrown = NoError
       /\ (src.failAt = NoFail \/ src.failAt >= Len(requests))

C3_FailureAborts ==
  /\ []C3_FailureInv
  /\ [][fpc = "thrown" => UNCHANGED <<requests, returned, thrown, allData>>]_vars

C3_Witness ==
  /\ fpc = "thrown"
  /\ Len(allData) = 2
  /\ thrown.code = "42P01"
  /\ silent

\* ---------------------------------------------------------------------
\* Properties of the aggregation
\* ---------------------------------------------------------------------
Buckets == {"completed", "noshow", "scheduled"}
Keys(m) == { m[i].key : i \in 1..Len(m) }
\* a counter of the record of key k, 0 when the map has no such record
Cnt(m, k, f) ==
  IF \E i \in 1..Len(m) : m[i].key = k
  THEN m[CHOOSE i \in 1..Len(m) : m[i].key = k][f]
  ELSE 0
\* the step processes one session
SessionStep == si' = si + 1
\* the step adds exactly d to counter f of key k
Delta(k, f, d) == Cnt(statsMap', k, f) = Cnt(statsMap, k, f) + d

EqIgnoreCase(a, b) ==
  /\ Len(a) = Len(b)
  /\ \A i \in 1..Len(a) : LowerChar(a[i]) = LowerChar(b[i])
\* s has a substring equal to sub ignoring letter case
ContainsIgnoreCase(s, sub) ==
  /\ s # Undef
  /\ \E i \in 0..(Len(s) - Len(sub)) :
       EqIgnoreCase(SubSeq(s, i + 1, i + Len(sub)), sub)
HasNoShowMarker(st) ==
  \/ ContainsIgnoreCase(st, STR_no_show)
  \/ ContainsIgnoreCase(st, STR_noshow)
  \/ ContainsIgnoreCase(st, STR_late_cancel)

\* the step counts the session in bucket b of exactly one record, and in
\* no other counter of any record
CountedIn(b) ==
  \E k \in Keys(statsMap') :
    /\ Delta(k, "total", 1)
    /\ Delta(k, b, 1)
    /\ \A c \in Buckets \ {b} : Delta(k, c, 0)
    /\ \A k2 \in (Keys(statsMap') \cup Keys(statsMap)) \ {k} :
         \A f \in Buckets \cup {"total"} : Delta(k2, f, 0)

\* C4: every stat record has completed + noshow + scheduled = total, the
\* map has one record per key, and each processed session increments total
\* and exactly one bucket counter of exactly one record.
C4_Partition ==
  /\ [](\A i \in 1..Len(statsMap) :
          /\ statsMap[i].completed + statsMap[i].noshow
               + statsMap[i].scheduled = statsMap[i].total
          /\ \A j \in 1..Len(statsMap) :
               statsMap[i].key = statsMap[j].key => i = j)
  /\ [][SessionStep => \E b \in Buckets : CountedIn(b)]_vars

C4_Witness ==
  /\ apc = "ready"
  /\ Len(sessions) = 2
  /\ \E i \in 1..Len(aggregatedStats) :
       /\ aggregatedStats[i].total = 2
       /\ aggregatedStats[i].scheduled = 1
       /\ aggregatedStats[i].noshow = 1

\* C5: a session whose status contains "no show", "noshow" or "late cancel"
\* ignoring case is counted as no-show and in no other bucket, whatever its
\* date and even when the status also contains "completed".
C5_NoShowFirst ==
  [][(SessionStep /\ HasNoShowMarker(sessions[si].status))
       => CountedIn("noshow")]_vars

C5_Witness ==
  /\ si = 2
  /\ sessions[1].status = ST_Completed_Late_Cancel
  /\ sessions[1].session_date = 1
  /\ nowAt[1] > 1
  /\ \E i \in 1..Len(statsMap) :
       statsMap[i].noshow = 1 /\ statsMap[i].completed = 0

\* C6: a session with an empty or missing status is counted completed when
\* its date is strictly before the clock reading and scheduled when it is
\* at or after it; a non-empty status with neither a no-show marker nor
\* "completed" is counted scheduled, also when the date is in the past.
C6_DateInference ==
  [][SessionStep =>
       LET st == sessions[si].status
           d == sessions[si].session_date
       IN /\ (st \in {Undef, <<>>} /\ d # InvalidDate /\ d < now')
               => CountedIn("completed")
          /\ (st \in {Undef, <<>>} /\ d # InvalidDate /\ d >= now')
               => CountedIn("scheduled")
          /\ (st \notin {Undef, <<>>} /\ ~HasNoShowMarker(st)
                /\ ~ContainsIgnoreCase(st, STR_completed))
               => CountedIn("scheduled")]_vars

C6_Witness ==
  /\ si = 2
  /\ sessions[1].status = Undef
  /\ sessions[1].session_date = nowAt[1]
  /\ \E i \in 1..Len(statsMap) :
       statsMap[i].scheduled = 1 /\ statsMap[i].total = 1

EmployeeKey(emp) == ToLowerCase(EmployeeName(emp))
SessionKey(session) == ToLowerCase(SessionEmployeeName(session))
ZeroCounts(r) ==
  r.completed = 0 /\ r.noshow = 0 /\ r.scheduled = 0 /\ r.total = 0

\* C7: every roster employee without a matching session has exactly one
\* stat record of its own, carrying its id, with all counts zero.
C7_RosterRecords ==
  apc = "ready" =>
    \A i \in 1..Len(employees) :
      (\A j \in 1..Len(sessions) :
          SessionKey(sessions[j]) # EmployeeKey(employees[i]))
      => Cardinality({ r \in 1..Len(aggregatedStats) :
                         /\ aggregatedStats[r].id = employees[i].id
                         /\ ZeroCounts(aggregatedStats[r]) }) = 1

\* C8: a session key that matches no roster employee has a record with
\* total >= 1 whose id is the employee id of the first session of that
\* key when that session has one (0 included), else that session's id.
C8_SynthesizedId ==
  apc = "ready" =>
    \A j \in 1..Len(sessions) :
      LET k == SessionKey(sessions[j])
          first == CHOOSE f \in 1..Len(sessions) :
                     /\ SessionKey(sessions[f]) = k
                     /\ \A g \in 1..(f - 1) : SessionKey(sessions[g]) # k
      IN (\A i \in 1..Len(employees) : EmployeeKey(employees[i]) # k)
         => \E r \in 1..Len(aggregatedStats) :
              /\ aggregatedStats[r].key = k
              /\ aggregatedStats[r].total >= 1
              /\ aggregatedStats[r].id =
                   (IF sessions[first].employee_id # NoId
                    THEN sessions[first].employee_id
                    ELSE sessions[first].id)

\* C9: when a roster employee's name and a session's employee name are
\* equal ignoring case, the output has exactly one record for that name; it
\* carries the id, display name and program of the roster (of the roster
\* employee that seeded it, the last one of that name) and its counts are
\* the classification of the sessions of that name.
C9_Join ==
  apc = "ready" =>
    \A i \in 1..Len(employees) : \A j \in 1..Len(sessions) :
      LET en == EmployeeName(employees[i])
          mine == { x \in 1..Len(sessions) :
                      EqIgnoreCase(SessionEmployeeName(sessions[x]), en) }
          last == CHOOSE x \in 1..Len(employees) :
                    /\ EqIgnoreCase(EmployeeName(employees[x]), en)
                    /\ \A y \in (x + 1)..Len(employees) :
                         ~EqIgnoreCase(EmployeeName(employees[y]), en)
          recs == { r \in 1..Len(aggregatedStats) :
                      EqIgnoreCase(aggregatedStats[r].name, en) }
      IN EqIgnoreCase(SessionEmployeeName(sessions[j]), en)
         => /\ Cardinality(recs) = 1
            /\ \A r \in recs :
                 /\ aggregatedStats[r].id = employees[last].id
                 /\ aggregatedStats[r].name = EmployeeName(employees[last])
                 /\ aggregatedStats[r].program =
                      (IF Truthy(employees[last].program)
                       THEN employees[last].program
                       ELSE IF Truthy(employees[last].program_name)
                       THEN employees[last].program_name
                       ELSE STR_Unassigned)
                 /\ aggregatedStats[r].total = Cardinality(mine)
                 /\ \A b \in Buckets :
                      aggregatedStats[r][b] =
                        Cardinality({ x \in mine :
                                        Bucket(sessions[x], nowAt[x]) = b })

C9_Witness ==
  /\ apc = "ready"
  /\ Len(employees) = 1 /\ employees[1].full_name = N_AlJo
  /\ Len(sessions) = 1
  /\ ~sessions[1].employee_manager.present
  /\ sessions[1].employee_name = N_ALJO
  /\ sessions[1].status = ST_Completed
  /\ Len(aggregatedStats) = 1
  /\ aggregatedStats[1].name = N_AlJo
  /\ aggregatedStats[1].id = 1
  /\ aggregatedStats[1].program = P_Eng
  /\ aggregatedStats[1].completed = 1
  /\ aggregatedStats[1].total = 1

\* ---------------------------------------------------------------------
\* Properties of the KPIs
\* ---------------------------------------------------------------------
Shown ==
  { i \in 1..Len(aggregatedStats) :
      /\ \E p \in 0..(Len(aggregatedStats[i].name) - Len(searchTerm)) :
           EqIgnoreCase(SubSeq(aggregatedStats[i].name, p + 1,
                               p + Len(searchTerm)), searchTerm)
      /\ (filterProgram = STR_All
            \/ aggregatedStats[i].program = filterProgram) }
RECURSIVE SeqSum(_, _, _)
SeqSum(n, idx, f) ==
  IF n = 0 THEN 0
  ELSE SeqSum(n - 1, idx, f)
         + (IF n \in idx THEN aggregatedStats[n][f] ELSE 0)
Abs(x) == IF x < 0 THEN -x ELSE x

\* C10: utilization is round(100 * sum(completed) / sum(total)), within
\* 0..100, when sum(total) > 0 and exactly 0 otherwise; average sessions
\* is sum(total) / (number of filtered records) to one decimal place, and
\* "0.0" for the empty filtered list.
C10_Kpis ==
  apc = "ready" =>
    LET n == Len(aggregatedStats)
        E == Cardinality(Shown)
        T == SeqSum(n, Shown, "total")
        C == SeqSum(n, Shown, "completed")
    IN /\ T > 0 => /\ utilization \in 0..100
                   /\ 2 * Abs(100 * C - utilization * T) <= T
       /\ T = 0 => utilization = 0
       /\ E > 0 => \E tenths \in 0..(10 * T) :
                     /\ 2 * Abs(10 * T - tenths * E) <= E
                     /\ avgSessions = IntToStr(tenths \div 10) \o <<".">>
                                        \o <<Digit(tenths % 10)>>
       /\ E = 0 => avgSessions = <<"0", ".", "0">>

C10_Witness ==
  /\ apc = "ready"
  /\ searchTerm = <<"b">>
  /\ Len(aggregatedStats) = 2
  /\ totalEmployees = 1
  /\ totalSessions = 3
  /\ totalCompleted = 2
  /\ utilization = 67
  /\ avgSessions = <<"3", ".", "0">>

\* ---------------------------------------------------------------------
\* Properties of getEmployeeRoster
\* ---------------------------------------------------------------------
\* the key of a row: its employee id when it has one, else its name
IdOrNameKey(row) ==
  IF row.employee_id # NoId
  THEN [id |-> row.employee_id, name |-> <<>>]
  ELSE [id |-> NoId, name |-> row.employee_name]
\* the program value a row carries under any of its program columns
RowProgram(row) ==
  IF Truthy(row.program) THEN row.program
  ELSE IF Truthy(row.program_name) THEN row.program_name
  ELSE IF Truthy(row.Program) THEN row.Program
  ELSE row.Program_Name
\* the employee record e is the record of key k
RecordOf(e, k) ==
  IF k.id # NoId THEN e.id = k.id
  ELSE e.id \in GenIds /\ e.full_name = k.name
ViaFallback == rpc = "returned" /\ Len(rQueries) = 2

\* C11: the fallback reduces the rows to exactly one record per key
\* (employee id when present, else name), whose program is that of the
\* first row of the key, in fetch order, that carries a program value.
C11_FallbackDedupe ==
  ViaFallback =>
    LET keys == { IdOrNameKey(sessionData[i]) : i \in 1..Len(sessionData) }
    IN /\ Len(rResult) = Cardinality(keys)
       /\ \A k \in keys :
            LET mine == { i \in 1..Len(sessionData) :
                            IdOrNameKey(sessionData[i]) = k }
                with == { i \in mine : Truthy(RowProgram(sessionData[i])) }
                recs == { r \in 1..Len(rResult) : RecordOf(rResult[r], k) }
            IN /\ Cardinality(recs) = 1
               /\ \A r \in recs :
                    IF with = {} THEN ~Truthy(rResult[r].program)
                    ELSE rResult[r].program =
                           RowProgram(sessionData[
                             CHOOSE i \in with : \A j \in with : i <= j])

\* C12: roster rows are returned unchanged without querying the session
\* table; an empty or failed roster fetch is never raised and starts the
\* fallback; an empty fallback returns the empty list; the call raises
\* only the failure of the fallback query.
C12_RosterPolicy ==
  /\ (rpc = "returned" /\ rosterTable.err = NoError
        /\ Len(rosterTable.rows) > 0)
       => rResult = rosterTable.rows /\ rQueries = <<"employee_manager">>
  /\ (rpc \in {"returned", "thrown"}
        /\ (rosterTable.err # NoError \/ Len(rosterTable.rows) = 0))
       => rQueries = <<"employee_manager", "session_tracking">>
  /\ (rpc = "returned" /\ Len(rQueries) = 2)
       => /\ trackingTable.err = NoError
          /\ (Len(trackingTable.rows) = 0 => rResult = <<>>)
  /\ rpc = "thrown"
       => /\ trackingTable.err # NoError
          /\ rThrown = trackingTable.err
          /\ Len(rQueries) = 2
  /\ rpc \notin {"returned", "thrown"} => rResult = <<>> /\ rThrown = NoError
  /\ (rpc \in {"await tracking", "dedupe"}
        => (rosterTable.err # NoError \/ Len(rosterTable.rows) = 0))

C12_Witness ==
  /\ rpc = "returned"
  /\ rosterTable.err # NoError
  /\ trackingTable.err = NoError
  /\ Len(trackingTable.rows) = 0
  /\ rResult = <<>>
  /\ rQueries = <<"employee_manager", "session_tracking">>

\* ---------------------------------------------------------------------
\* Properties of getDashboardSessions
\* ---------------------------------------------------------------------
\* C13: the joined query is attempted first; when it succeeds, with any
\* number of rows, the flat query is never issued; when it fails the
\* failure is not raised and the flat query ordered by created_at is
\* issued exactly once; the call raises only the flat query's error.
C13_SessionsPolicy ==
  /\ dpc # "start" => Len(dQueries) >= 1 /\ dQueries[1] = JoinQuery
  /\ (dpc \in {"returned", "thrown"} /\ joinTable.err = NoError)
       => /\ dQueries = <<JoinQuery>>
          /\ dpc = "returned"
          /\ dResult = joinTable.rows
  /\ (dpc \in {"returned", "thrown"} /\ joinTable.err # NoError)
       => /\ dQueries = <<JoinQuery, FlatQuery>>
          /\ dQueries[2].orderBy = "created_at"
          /\ (dpc = "thrown" <=> flatTable.err # NoError)
  /\ dpc = "thrown" => dThrown = flatTable.err /\ flatTable.err # NoError
  /\ dpc # "thrown" => dThrown = NoError
  /\ Len(dQueries) <= 2

C13_Witness ==
  /\ dpc = "thrown"
  /\ joinTable.err # NoError
  /\ flatTable.err # NoError
  /\ joinTable.err # flatTable.err
  /\ dThrown = flatTable.err

\* the reference the flat fields of a row give
Synthesized(row) ==
  LET name == IF Truthy(row.employee_name) THEN row.employee_name
              ELSE STR_Unknown
  IN [present |-> TRUE, full_name |-> name,
      first_name |-> SplitFirst(name), last_name |-> SplitRest(name),
      program |-> IF Truthy(row.program) THEN row.program
                  ELSE IF Truthy(row.program_name) THEN row.program_name
                  ELSE row.Program,
      avatar_url |-> Undef]

\* C14 as stated: every returned session record, on the joined path as
\* well as on the flat path, has a non-null nested employee reference.
C14_AlwaysReference ==
  dpc = "returned" =>
    \A i \in 1..Len(dResult) : dResult[i].employee_manager.present

\* C14: on the flat fallback path every returned record has a nested
\* employee reference, synthesized from the row's name and program
\* fields when the row has none and the row's own otherwise; on the
\* joined path the rows are returned as received, reference or not.
C14_FlatPathReference ==
  dpc = "returned" =>
    IF Len(dQueries) = 2
    THEN /\ Len(dResult) = Len(flatTable.rows)
         /\ \A i \in 1..Len(dResult) :
              LET row == flatTable.rows[i]
              IN /\ dResult[i].employee_manager.present
                 /\ dResult[i].employee_manager =
                      IF row.employee_manager.present
                      THEN row.employee_manager
                      ELSE Synthesized(row)
                 /\ dResult[i].employee_name = row.employee_name
                 /\ dResult[i].program = row.program
    ELSE dResult = joinTable.rows

C14_Witness ==
  /\ dpc = "returned"
  /\ Len(dQueries) = 2
  /\ \E i \in 1..Len(dResult) :
       /\ ~flatTable.rows[i].employee_manager.present
       /\ ~Truthy(flatTable.rows[i].employee_name)
       /\ dResult[i].employee_manager.full_name = STR_Unknown

\* ---------------------------------------------------------------------
\* Properties of loadData
\* ---------------------------------------------------------------------
Settled(pc) == pc \in {"returned", "thrown"}

\* C15 as stated: both fetches are started before either has settled,
\* and the view leaves the loading state only after both have settled.
C15_WaitsForBoth ==
  view = "sessions" =>
    /\ (dpc \notin {"idle", "start"} \/ rpc \notin {"idle", "start"})
         => Len(dQueries) >= 1 /\ Len(rQueries) >= 1
    /\ ~loading => Settled(dpc) /\ Settled(rpc)

\* C15: both fetches are started before either has settled; the view
\* leaves the loading state for the ready state only after both fetches
\* have fulfilled, and for the error state as soon as one fetch has
\* rejected, whether or not the other has settled.
C15_FailFast ==
  /\ [](view = "sessions" =>
          /\ (dpc \notin {"idle", "start"} \/ rpc \notin {"idle", "start"})
               => Len(dQueries) >= 1 /\ Len(rQueries) >= 1
          /\ (~loading /\ error = NoMessage)
               => dpc = "returned" /\ rpc = "returned"
          /\ (~loading /\ error # NoMessage)
               => dpc = "thrown" \/ rpc = "thrown"
          /\ lpc = "done" => dpc = "thrown" \/ rpc = "thrown" \/
                             (dpc = "returned" /\ rpc = "returned"))
  /\ [][(view = "sessions" /\ lpc = "pending"
           /\ (dpc = "thrown" \/ rpc = "thrown"))
          => (lpc' = "done" /\ (mounted => ~loading' /\ error' # NoMessage))
       ]_vars

C15_Witness ==
  /\ view = "sessions"
  /\ ~loading
  /\ error # NoMessage
  /\ dpc = "thrown"
  /\ rpc \notin {"returned", "thrown"}

\* C16: once a dashboard has unmounted, a load that settles afterwards
\* updates none of data, error and loading, and unmounting leaves the
\* requests in flight.
C16_NoUpdateAfterUnmount ==
  [][/\ (view = "sessions" /\ ~mounted)
          => UNCHANGED <<sessions, employees, error, loading>>
     /\ (view = "employees" /\ ~empMounted)
          => UNCHANGED <<empEmployees, empError, empLoading>>
     /\ ((mounted /\ ~mounted') \/ (empMounted /\ ~empMounted'))
          => UNCHANGED <<rosterVars, dashVars, sessions, employees, error,
                         loading, lpc, empEmployees, empError, empLoading,
                         epc>>
    ]_vars

\* a load settled after the unmount, one with data and one with an error
C16_Witness ==
  \/ /\ view = "sessions" /\ ~mounted /\ lpc = "done" /\ loading
     /\ dpc = "returned" /\ rpc = "returned" /\ Len(dResult) > 0
     /\ sessions = <<>>
  \/ /\ view = "employees" /\ ~empMounted /\ epc = "done" /\ empLoading
     /\ rpc = "thrown" /\ empError = NoMessage

CalendarMonths ==
  { [year |-> 2023, month |-> 11], [year |-> 2023, month |-> 12],
    [year |-> 2024, month |-> 1] }
\* session i is completed by the aggregator's predicate, not a no-show,
\* and its date falls in calendar month m
InMonth(i, m) ==
  /\ sessions[i].session_date # InvalidDate
  /\ getFullYear(sessions[i].session_date) = m.year
  /\ getMonth(sessions[i].session_date) + 1 = m.month
  /\ Bucket(sessions[i], chartNowAt[i]) = "completed"
LabelOf(m) == [valid |-> TRUE, month |-> m.month, year2 |-> m.year % 100]

\* C19: the trend series has exactly one point for each calendar
\* year-month with at least one completed, non-no-show session, valued
\* with the number of such sessions; it has no other point; the points
\* are in ascending chronological order.
C19_MonthlyTrend ==
  cpc = "done" =>
    /\ \A m \in CalendarMonths :
         LET n == Cardinality({ i \in 1..Len(sessions) : InMonth(i, m) })
             pts == { j \in 1..Len(chartData) :
                        chartData[j].label = LabelOf(m) }
         IN IF n = 0 THEN pts = {}
            ELSE Cardinality(pts) = 1
                   /\ \A j \in pts : chartData[j].value = n
    /\ \A j \in 1..Len(chartData) :
         \E m \in CalendarMonths : chartData[j].label = LabelOf(m)
    /\ \A j, k \in 1..Len(chartData) :
         j < k =>
           \/ chartData[j].label.year2 < chartData[k].label.year2
           \/ /\ chartData[j].label.year2 = chartData[k].label.year2
              /\ chartData[j].label.month < chartData[k].label.month

\* ---------------------------------------------------------------------
\* Properties of the display filter
\* ---------------------------------------------------------------------
\* C20: a stat record is displayed exactly when its name contains the
\* search text ignoring case and the program filter is "All" or equals
\* the record's program; a change of the search text or of the filter
\* issues no fetch and leaves the fetched sessions, the fetched roster
\* and the aggregated records unchanged.
C20_DisplayFilter ==
  /\ [](apc = "ready" => filteredData = Shown)
  /\ [][(searchTerm' # searchTerm \/ filterProgram' # filterProgram)
          => UNCHANGED <<sessions, employees, aggregatedStats, statsMap,
                         fetchVars, rosterVars, dashVars, lpc, epc>>
       ]_vars

C20_Witness ==
  /\ apc = "ready"
  /\ searchTerm = <<"J", "O">>
  /\ filterProgram = P_Eng
  /\ \E i, k \in 1..Len(aggregatedStats) :
       /\ i \in filteredData
       /\ k \notin filteredData
       /\ aggregatedStats[k].program = filterProgram

\* ---------------------------------------------------------------------
\* Properties of the roster view's filter
\* ---------------------------------------------------------------------
\* the employee's name, in any of the forms the record carries it
EmpNameContains(emp, term) ==
  \/ \E f \in {"full_name", "employee_name", "name", "first_name",
               "last_name"} : ContainsIgnoreCase(Field(emp, f), term)
  \/ ContainsIgnoreCase(getFirstName(emp) \o <<" ">> \o getLastName(emp),
                        term)
EmpProgramPasses(emp) ==
  \/ empFilterProgram = STR_AllPrograms
  \/ (IF Truthy(Field(emp, "program")) THEN emp.program
      ELSE IF Truthy(Field(emp, "program_name")) THEN emp.program_name
      ELSE IF Truthy(Field(emp, "Program")) THEN emp.Program
      ELSE STR_Unassigned) = empFilterProgram

\* C21 as stated: an employee is displayed exactly when the name
\* contains the search text ignoring case and the program filter is
\* "All Programs" or equals the employee's program label.
C21_NameSearch ==
  epc = "done" =>
    \A i \in 1..Len(empEmployees) :
      i \in filteredEmployees <=>
        /\ EmpNameContains(empEmployees[i], empSearchTerm)
        /\ EmpProgramPasses(empEmployees[i])

\* C21: an employee is displayed exactly when the text of all the
\* record's field values, joined by single blanks, contains the search
\* text ignoring case and the program filter is "All Programs" or equals
\* the employee's program label; an employee whose stored name field
\* contains the search text passes the search.
C21_AllValuesSearch ==
  epc = "done" =>
    \A i \in 1..Len(empEmployees) :
      LET emp == empEmployees[i]
      IN /\ i \in filteredEmployees <=>
              /\ ContainsIgnoreCase(JoinValues(emp), empSearchTerm)
              /\ EmpProgramPasses(emp)
         /\ (\E f \in {"full_name", "employee_name", "name", "first_name",
                       "last_name"} :
               ContainsIgnoreCase(Field(emp, f), empSearchTerm))
              => EmpMatchesSearch(emp, empSearchTerm)

\* an employee displayed for a match in the e-mail address only
C21_Witness ==
  /\ epc = "done"
  /\ empSearchTerm = <<"B", "@">>
  /\ \E i \in filteredEmployees :
       ~EmpNameContains(empEmployees[i], empSearchTerm)

\* ---------------------------------------------------------------------
\* Properties of the aggregator's name resolution
\* ---------------------------------------------------------------------
\* the display name of a session as the resolution order describes it
ResolvedName(session) ==
  LET emp == session.employee_manager
  IN IF emp.present /\ Truthy(emp.first_name)
     THEN Trim(emp.first_name \o <<" ">>
                 \o (IF Truthy(emp.last_name) THEN emp.last_name ELSE <<>>))
     ELSE IF emp.present /\ Truthy(emp.full_name) THEN emp.full_name
     ELSE IF Truthy(session.employee_name) THEN session.employee_name
     ELSE STR_UnknownEmployee

\* C22: every session is counted under the key of its display name, which
\* is the trimmed "first last" composition when the nested reference has
\* a first name, else the reference's full name when it has one, else the
\* session's flat employee_name, else "Unknown Employee"; a reference
\* carrying only full_name resolves to that full name.
C22_NameResolution ==
  [][AggSession =>
       LET session == sessions[si]
           key == ToLowerCase(ResolvedName(session))
           before == IF MapHas(statsMap, key)
                     THEN MapGet(statsMap, key).total ELSE 0
       IN /\ MapHas(statsMap', key)
          /\ MapGet(statsMap', key).total = before + 1
          /\ ~MapHas(statsMap, key)
               => MapGet(statsMap', key).name = ResolvedName(session)]_vars

\* ---------------------------------------------------------------------
\* Properties of the silent flag
\* ---------------------------------------------------------------------
\* what a call did, apart from its log lines
FetchOutcome(run) ==
  [requests |-> run.requests, kind |-> run.kind, returned |-> run.returned,
   thrown |-> run.thrown, capped |-> run.capped]

\* C23: for the same source and call site, the silent and the loud call
\* issue the same page requests and end the same way (same rows, same
\* failure object, same stop at the safety cap); the call that ran is one
\* of the two, and only its log lines depend on the flag.
C23_SilentLogsOnly ==
  fpc \in {"returned", "thrown"} =>
    LET quiet == fetchAllPages(src, call, TRUE)
        loud == fetchAllPages(src, call, FALSE)
        mine == IF silent THEN quiet ELSE loud
    IN /\ FetchOutcome(quiet) = FetchOutcome(loud)
       /\ requests = mine.requests
       /\ fpc = mine.kind
       /\ returned = mine.returned
       /\ thrown = mine.thrown
       /\ logs = mine.logs
       /\ mine.capped <=> (fpc = "returned" /\ SafetyBreak(page))

\* a silent call that failed on its second page, and one that stopped at
\* the safety cap
C23_Witness ==
  /\ silent
  /\ \/ fpc = "thrown" /\ Len(requests) = 2 /\ logs = <<>>
     \/ fpc = "returned" /\ SafetyBreak(page) /\ logs = <<"warn">>

\* ---------------------------------------------------------------------
\* Properties of the sessions pipeline
\* ---------------------------------------------------------------------
\* the path getDashboardSessions took, and row i as the table holds it
PipeFlatPath == Len(dQueries) = 2
PipeRawRow(i) == (IF PipeFlatPath THEN flatTable ELSE joinTable).rows[i]
Nameless(row) ==
  ~row.employee_manager.present /\ ~Truthy(row.employee_name)
RosterKeys ==
  { ToLowerCase(IF Truthy(employees[i].full_name) THEN employees[i].full_name
                ELSE IF Truthy(employees[i].employee_name)
                THEN employees[i].employee_name
                ELSE IF Truthy(employees[i].name) THEN employees[i].name
                ELSE STR_Unknown) : i \in 1..Len(employees) }
TotalOf(map, key) == IF MapHas(map, key) THEN MapGet(map, key).total ELSE 0

\* C24: on the joined and on the flat path, a session row that carries no
\* employee name is counted under the record named "Unknown Employee" and
\* changes the counts of no record seeded from a roster employee.
C24_NamelessPlaceholder ==
  [][(AggSession /\ Nameless(PipeRawRow(si))) =>
       LET key == ToLowerCase(STR_UnknownEmployee)
       IN /\ MapHas(statsMap', key)
          /\ MapGet(statsMap', key).name = STR_UnknownEmployee
          /\ TotalOf(statsMap', key) = TotalOf(statsMap, key) + 1
          /\ \A k \in RosterKeys :
               TotalOf(statsMap', k) = TotalOf(statsMap, k)]_vars

\* ---------------------------------------------------------------------
\* Properties of the session totals
\* ---------------------------------------------------------------------
\* C25: with no search text and the program filter "All", every stat
\* record is displayed, the TOTAL SESSIONS figure equals the number of
\* fetched sessions, and the number of stat records equals the number of
\* distinct lowercase name keys over the roster and the sessions.
C25_Conservation ==
  (apc = "ready" /\ searchTerm = <<>> /\ filterProgram = STR_All) =>
    LET shown == FilteredIdx(aggregatedStats, searchTerm, filterProgram)
    IN /\ shown = 1..Len(aggregatedStats)
       /\ Len(sessions) = Len(dResult)
       /\ SumOver(aggregatedStats, shown, "total") = Len(dResult)
       /\ Len(aggregatedStats) =
            Cardinality({ EmployeeKey(employees[i]) : i \in 1..Len(employees) }
                          \cup
                        { SessionKey(sessions[j]) : j \in 1..Len(sessions) })

\* two fetched sessions and a roster employee share one stat record
C25_Witness ==
  /\ apc = "ready"
  /\ Len(employees) = 1
  /\ Len(dResult) = 2
  /\ Len(aggregatedStats) = 1
  /\ aggregatedStats[1].total = 2

\* ---------------------------------------------------------------------
\* Properties of the trend chart against the aggregation
\* ---------------------------------------------------------------------
RECURSIVE PointSum(_, _)
PointSum(points, n) ==
  IF n = 0 THEN 0 ELSE PointSum(points, n - 1) + points[n].value
\* every reading of the clock by either computation gave the same moment
SameMoment ==
  \A t1, t2 \in { nowAt[i] : i \in 1..Len(nowAt) }
                  \cup { chartNowAt[i] : i \in 1..Len(chartNowAt) } : t1 = t2

\* C26: evaluated at the same moment, the chart counts a session exactly
\* when the aggregator puts it in the completed bucket, the values of the
\* trend points sum to the sum of completed over all stat records, and a
\* change of the search text or of the program filter leaves the series
\* as it is.
C26_TrendMatchesCompleted ==
  /\ []((apc = "ready" /\ cpc = "done" /\ SameMoment) =>
          /\ \A j \in 1..Len(chartNowAt) :
               ChartCounts(sessions[j], chartNowAt[j])
                 <=> (Bucket(sessions[j], nowAt[j]) = "completed")
          /\ PointSum(chartData, Len(chartData))
               = SumOver(aggregatedStats, 1..Len(aggregatedStats),
                         "completed"))
  /\ [][(searchTerm' # searchTerm \/ filterProgram' # filterProgram)
          => (chartData' = chartData /\ monthlyCounts' = monthlyCounts)]_vars

\* a filtered view of a roster with a completed session, a no-show whose
\* status mentions completed, and a chart of one point
C26_Witness ==
  /\ apc = "ready" /\ cpc = "done" /\ SameMoment
  /\ Len(sessions) = 2
  /\ sessions[1].status = ST_Completed
  /\ sessions[2].status = ST_Completed_Late_Cancel
  /\ Len(chartData) = 1 /\ chartData[1].value = 1
  /\ filterProgram = P_Ops

\* ---------------------------------------------------------------------
\* Properties of the fallback roster extraction
\* ---------------------------------------------------------------------
RECURSIVE FirstTruthy(_)
FirstTruthy(vals) ==
  IF Len(vals) = 1 \/ Truthy(Head(vals)) THEN Head(vals)
  ELSE FirstTruthy(Tail(vals))
\* every attribute of the employee record e is the value of row
FromOneRow(e, row) ==
  /\ e.full_name = row.employee_name
  /\ e.program = RowProgram(row)
  /\ e.account_name = FirstTruthy(<<row.account_name, row.Account_Name>>)
  /\ e.department =
       FirstTruthy(<<row.department, row.Department, row.account_name>>)
  /\ e.email = FirstTruthy(<<row.email, row.Email, row.email_address,
                            row.company_email, row.Company_Email>>)
  /\ e.created_at = row.created_at
\* the step puts another record under a key that had one
Replaced(k) ==
  /\ MapHas(uniqueEmployees, k)
  /\ MapGet(uniqueEmployees', k) # MapGet(uniqueEmployees, k)

\* C27: a key's record is replaced at most once (only a record without a
\* program is replaced, and its replacement has one), and every record is
\* built from one single row: its name, program, account, department and
\* e-mail are those of the row that set it, so a replacement for a
\* program value carries the replacing row's e-mail and account.
C27_WholeRowReplacement ==
  /\ [](\A i \in 1..Len(uniqueEmployees) :
          \E j \in 1..(xi - 1) :
            /\ RosterKey(sessionData[j]) = uniqueEmployees[i].key
            /\ FromOneRow(uniqueEmployees[i].value, sessionData[j]))
  /\ [](ViaFallback =>
          \A i \in 1..Len(rResult) :
            \E j \in 1..Len(sessionData) :
              FromOneRow(rResult[i], sessionData[j]))
  /\ [][\A i \in 1..Len(uniqueEmployees) :
          LET k == uniqueEmployees[i].key
          IN /\ Replaced(k) =>
                  /\ ~Truthy(MapGet(uniqueEmployees, k).value.program)
                  /\ Truthy(MapGet(uniqueEmployees', k).value.program)
                  /\ FromOneRow(MapGet(uniqueEmployees', k).value,
                                sessionData[xi])
             /\ Truthy(MapGet(uniqueEmployees, k).value.program) =>
                  /\ MapHas(uniqueEmployees', k)
                  /\ MapGet(uniqueEmployees', k) = MapGet(uniqueEmployees, k)]_vars

\* the row with the program replaced the record of the row with the
\* e-mail address: the final record has the account and no e-mail
C27_Witness ==
  /\ ViaFallback
  /\ Len(sessionData) = 2
  /\ sessionData[1].employee_id = 42 /\ sessionData[1].email = M_a
  /\ sessionData[2].employee_id = 42 /\ sessionData[2].program = P_Eng
  /\ Len(rResult) = 1
  /\ rResult[1].program = P_Eng
  /\ rResult[1].account_name = C_Ac
  /\ ~Truthy(rResult[1].email)

\* ---------------------------------------------------------------------
\* Properties of the session held by ProtectedRoute
\* ---------------------------------------------------------------------
\* the component has been told a session value
Reported == delivered \/ (gpc = "done" /\ ~gsFailed)

\* C28: once a value has been reported to the mounted route, its session
\* state is the collaborator's latest session; a check that resolves
\* after a notification leaves the notified value in place; the session
\* state does not change once the route has unmounted.
C28_LatestSession ==
  /\ []((prMounted /\ Reported) => prSession = authSession)
  /\ [][(gpc = "read" /\ gpc' = "done" /\ ~gsFailed' /\ delivered)
          => prSession' = prSession]_vars
  /\ [][~prMounted => prSession' = prSession]_vars

\* ---------------------------------------------------------------------
\* Properties of the SessionDashboard load as a whole
\* ---------------------------------------------------------------------
\* C29: sessions and roster are stored only together, only when both
\* fetches succeeded, and then the error is null; when a fetch fails and
\* the component is mounted the error is set and sessions and roster stay
\* empty; when the component stays mounted and both fetches settle,
\* loading eventually becomes false.
C29_AllOrNothing ==
  /\ [](view = "sessions" =>
          /\ (sessions # <<>> \/ employees # <<>>)
               => /\ dpc = "returned" /\ rpc = "returned"
                  /\ sessions = dResult /\ employees = rResult
                  /\ error = NoMessage
          /\ (lpc = "done" /\ dpc = "returned" /\ rpc = "returned"
                /\ ~loading)
               => (sessions = dResult /\ employees = rResult
                     /\ error = NoMessage)
          /\ (dpc = "thrown" \/ rpc = "thrown" \/ error # NoMessage)
               => sessions = <<>> /\ employees = <<>>
          /\ ((dpc = "thrown" \/ rpc = "thrown") /\ lpc = "done" /\ ~loading)
               => error # NoMessage)
  /\ ((view = "sessions" /\ Settled(dpc) /\ Settled(rpc))
        ~> (~loading \/ ~mounted))

\* the sessions fetch returned rows, the roster fetch failed: the view
\* shows the error and no sessions
C29_Witness ==
  /\ view = "sessions" /\ mounted /\ lpc = "done"
  /\ dpc = "returned" /\ Len(dResult) > 0
  /\ rpc = "thrown"
  /\ ~loading /\ error # NoMessage
  /\ sessions = <<>> /\ employees = <<>>

\* ---------------------------------------------------------------------
\* Properties of the aggregation under reordering
\* ---------------------------------------------------------------------
Perms(n) == { f \in [1..n -> 1..n] : Injective(f) }
\* the keys of an output with the counts of each
KeyCounts(stats) ==
  { [key |-> stats[i].key, completed |-> stats[i].completed,
     noshow |-> stats[i].noshow, scheduled |-> stats[i].scheduled,
     total |-> stats[i].total] : i \in 1..Len(stats) }
\* the memo has just returned its value, every reading of the clock having
\* given the same moment
AggregatedAtOneMoment ==
  /\ apc = "ready" /\ cpc = "scan" /\ ci = 1
  /\ \A i, j \in 1..Len(nowAt) : nowAt[i] = nowAt[j]

\* C30: for a fixed roster and moment, the aggregation of the session
\* list in any other order has the same name keys and, for every key, the
\* same completed, noshow, scheduled and total.
C30_OrderIndependent ==
  AggregatedAtOneMoment =>
    \A t \in { nowAt[i] : i \in 1..Len(nowAt) } :
      /\ aggregatedStats = aggregatedStatsAt(employees, sessions, t)
      /\ \A f \in Perms(Len(sessions)) :
           KeyCounts(aggregatedStatsAt(employees,
                       [i \in 1..Len(sessions) |-> sessions[f[i]]], t))
             = KeyCounts(aggregatedStats)

\* two sessions of one key in different buckets; the record synthesized
\* for the key carries the first session's id
C30_Witness ==
  /\ AggregatedAtOneMoment
  /\ employees = <<>>
  /\ Len(sessions) = 2
  /\ sessions[1].status = <<>> /\ sessions[1].session_date = 5
  /\ sessions[2].status = <<>> /\ sessions[2].session_date = 2
  /\ Len(aggregatedStats) = 1
  /\ aggregatedStats[1].id = sessions[1].id
  /\ aggregatedStats[1].total = 2

====
